---------------------------- MODULE Spec2Model ----------------------------
(***************************************************************************)
(* Task-management REST backend (Express + Mongoose): the request          *)
(* pipeline (authenticate, requireAdmin, validation), the task and user    *)
(* controllers, and the activity log they write.                           *)
(*                                                                         *)
(* Identifiers are hex strings.  The strings of the model repeat one       *)
(* character and are written run-length encoded: [c |-> "a", n |-> 24] is  *)
(* "aaaaaaaaaaaaaaaaaaaaaaaa".  Upper- and lower-case spellings of one     *)
(* ObjectId are different strings that cast to the same id.  Dates are     *)
(* instants (naturals); a date string of a request body also carries       *)
(* whether it is spelled as Date.prototype.toISOString spells the instant. *)
(***************************************************************************)
EXTENDS Integers, Sequences, FiniteSets, TLC

VARIABLES
    users,      \* Credential Store: ObjectId -> [email, role]
    tasks,      \* Task Store: ObjectId -> task document
    log,        \* ActivityLog collection, in insertion order
    nextTask,   \* index of the next ObjectId the store hands to a new task
    now,        \* the clock read by new Date() / Date.now()
    resp,       \* the last response sent, with the request it answers
    nreq,       \* number of requests answered so far
    inflight    \* requests suspended at an await (concurrent handlers)

vars == <<users, tasks, log, nextTask, now, resp, nreq, inflight>>

(***************************************************************************)
(* Bounds of the model.                                                    *)
(***************************************************************************)
\* requests answered in a run of Spec
MaxReqs == 1
\* requests answered in a run of SpecAccess
MaxAccessReqs == 2
\* requests received in a run of SpecRace
MaxRaceReqs == 2
\* requests answered in a run of SpecLife
MaxLifeReqs == 2
\* the clock stops here
MaxTime == 2

(***************************************************************************)
(* Identifiers.                                                            *)
(***************************************************************************)
ObjectIdLen == 24

HexChars ==
    {"0", "1", "2", "3", "4", "5", "6", "7", "8", "9",
     "a", "b", "c", "d", "e", "f", "A", "B", "C", "D", "E", "F"}

\* the string of n characters c
Repeat(c, n) == [c |-> c, n |-> n]

HexId(c) == Repeat(c, ObjectIdLen)

\* express-validator isMongoId / the /^[0-9a-fA-F]{24}$/ test
IsMongoId(s) == s.n = ObjectIdLen /\ s.c \in HexChars

\* mongoose.Types.ObjectId.isValid: 24 hex characters, or any string of 12
\* characters (the 12 bytes of an id)
ObjectIdIsValid(s) == IsMongoId(s) \/ s.n = 12

LowerChar(c) ==
    CASE c = "A" -> "a" [] c = "B" -> "b" [] c = "C" -> "c"
      [] c = "D" -> "d" [] c = "E" -> "e" [] c = "F" -> "f"
      [] OTHER -> c

\* Mongoose's cast of a hex string to an ObjectId: the bytes the hex
\* denotes, whatever the letter case.  An ObjectId is modelled by its
\* lower-case hex, which is also what ObjectId.toString() returns.
\* A string of 12 characters is cast to the id made of its 12 bytes.
ToObjectId(s) == IF s.n = ObjectIdLen THEN Repeat(LowerChar(s.c), s.n) ELSE s

ObjectIdToString(oid) == oid

UA == HexId("a")
UB == HexId("b")
UC == HexId("c")
UD == HexId("d")            \* a user who registered and was deleted since
UserOids == {UA, UB, UC, UD}

T1 == HexId("1")
T2 == HexId("2")
T3 == HexId("3")
TaskIdSeq == <<T1, T2, T3>>     \* ObjectIds in the order the store creates them


(***************************************************************************)
(* Dates.                                                                  *)
(***************************************************************************)
NoDate == [k |-> "undefined"]
NullDate == [k |-> "null"]
DateAt(t) == [k |-> "date", t |-> t]

\* a date string of a request body: the instant it parses to, and whether
\* its text is the toISOString text of that instant
DateStr(t, iso) == [k |-> "string", t |-> t, iso |-> iso]

\* JSON.stringify of a stored dueDate
DateToJSON(d) == IF d.k = "date" THEN DateStr(d.t, TRUE) ELSE d

\* Mongoose's cast of a body value to the Date path
CastDate(v) == IF v.k = "string" THEN DateAt(v.t) ELSE NullDate


(***************************************************************************)
(* Documents.                                                              *)
(***************************************************************************)
Undefined == "<undefined>"      \* a path the stored document does not have

ADMIN == "admin"
MEMBER == "member"
UserRoles == {ADMIN, MEMBER}

TODO == "todo"
IN_PROGRESS == "in-progress"
DONE == "done"
TaskStatuses == {TODO, IN_PROGRESS, DONE}

LOW == "low"
MEDIUM == "medium"
HIGH == "high"
URGENT == "urgent"
TaskPriorities == {LOW, MEDIUM, HIGH, URGENT}

CREATE == "create"
UPDATE == "update"
DELETE == "delete"

MaxTags == 10

TaskDoc(title, description, status, priority, dueDate, tags, assignee, createdBy) ==
    [title |-> title, description |-> description, status |-> status,
     priority |-> priority, dueDate |-> dueDate, tags |-> tags,
     assignee |-> assignee, createdBy |-> createdBy]

SchemaPaths ==
    {"title", "description", "status", "priority", "dueDate", "tags",
     "assignee", "createdBy"}

\* the fields updateTask diffs, in the order of its forEach
AuditedFields == {"title", "description", "status", "priority", "dueDate", "tags"}

\* an entry that records every action as an update
LogEntry_ActionUpdate(taskId, userId, action, changes) ==
    [taskId |-> ToObjectId(taskId), userId |-> userId, action |-> UPDATE,
     changes |-> changes, timestamp |-> now]

\* an ActivityLog document; timestamp defaults to Date.now
LogEntry(taskId, userId, action, changes) ==
    [taskId |-> ToObjectId(taskId), userId |-> userId, action |-> action,
     changes |-> changes, timestamp |-> now]

(***************************************************************************)
(* Requests and responses.                                                 *)
(***************************************************************************)
NoId == Repeat("", 0)
NoToken == [kind |-> "none", userId |-> NoId]
ForgedToken == [kind |-> "invalid", userId |-> UA]
ExpiredToken(u) == [kind |-> "expired", userId |-> u]
\* generateToken(userId): the payload is the user id and nothing else
TokenOf(u) == [kind |-> "valid", userId |-> u]

Request(ep, tok, id, body, query) ==
    [ep |-> ep, tok |-> tok, id |-> id, body |-> body, query |-> query]

\* what a handler leaves behind: the stores and the response
Result(status, msg, data, u, t, l, nt) ==
    [status |-> status, msg |-> msg, data |-> data,
     users |-> u, tasks |-> t, log |-> l, nextTask |-> nt]

\* a thrown AppError, turned into the JSON envelope by errorHandler
Throw(status, msg) ==
    Result(status, msg, <<>>, users, tasks, log, nextTask)

Ok(status, msg, data) ==
    Result(status, msg, data, users, tasks, log, nextTask)

(***************************************************************************)
(* middleware/auth.ts                                                      *)
(***************************************************************************)
\* authenticate: the outcome is either a 401 or req.user, the user document
\* read from the store now
Authenticate(tok) ==
    IF tok.kind = "none"
    THEN [ok |-> FALSE, status |-> 401, msg |-> "Access denied. No token provided."]
    ELSE IF tok.kind = "expired"
    THEN [ok |-> FALSE, status |-> 401, msg |-> "Token expired."]
    ELSE IF tok.kind = "invalid"
    THEN [ok |-> FALSE, status |-> 401, msg |-> "Invalid token."]
    ELSE IF ToObjectId(tok.userId) \notin DOMAIN users
    THEN [ok |-> FALSE, status |-> 401,
          msg |-> "Token is valid but user no longer exists."]
    ELSE [ok |-> TRUE,
          user |-> [_id |-> ToObjectId(tok.userId),
                    role |-> users[ToObjectId(tok.userId)].role]]

\* a gate that lets every signed-in role pass
RequireAdmin_AnyRole(user) == user.role \in UserRoles

\* a gate on the role the user had when the tokens of the model were issued
RequireAdmin_IssuedRole(user) == user._id \in {UA, UB}

\* requireAdmin: TRUE when the request may pass
RequireAdmin(user) == user.role = ADMIN

(***************************************************************************)
(* middleware/validation.ts (handleValidationErrors): any failed check of  *)
(* the route's validation chain ends the request with a 400 before the     *)
(* handler runs.                                                           *)
(***************************************************************************)
HandleValidationErrors(valid, handlerResult) ==
    IF valid THEN handlerResult ELSE Throw(400, "Validation Error")

(***************************************************************************)
(* validation/task.ts                                                      *)
(***************************************************************************)
\* the trim() sanitizer, on the strings of the model
Trim(s) ==
    CASE s = " Fix bug " -> "Fix bug" [] s = "  " -> "" [] OTHER -> s

\* req.body after the sanitizers of createTaskValidation and
\* updateTaskValidation have run: title and description are trimmed in place
SanitizedBody(req) ==
    IF req.ep \in {"POST /tasks", "PATCH /tasks/:id"}
    THEN [f \in DOMAIN req.body |->
             IF f \in {"title", "description"} THEN Trim(req.body[f])
             ELSE req.body[f]]
    ELSE req.body

ValidTags(tags) == Len(tags) <= MaxTags /\ \A i \in 1..Len(tags) : tags[i] # ""

\* createTaskValidation: dueDate, when given, is an ISO 8601 string later
\* than new Date()
CreateTaskValidation(body) ==
    /\ "title" \in DOMAIN body /\ body.title # ""
    /\ "status" \in DOMAIN body => body.status \in TaskStatuses
    /\ "priority" \in DOMAIN body => body.priority \in TaskPriorities
    /\ "dueDate" \in DOMAIN body =>
          body.dueDate.k = "string" /\ body.dueDate.t > now
    /\ "tags" \in DOMAIN body => ValidTags(body.tags)
    /\ "assignee" \in DOMAIN body /\ IsMongoId(body.assignee)

\* updateTaskValidation: a null dueDate passes; a string must parse to an
\* instant later than new Date()
UpdateTaskValidation(id, body) ==
    /\ IsMongoId(id)
    /\ "title" \in DOMAIN body => body.title # ""
    /\ "status" \in DOMAIN body => body.status \in TaskStatuses
    /\ "priority" \in DOMAIN body => body.priority \in TaskPriorities
    /\ "dueDate" \in DOMAIN body =>
          (body.dueDate.k = "string" => body.dueDate.t > now)
    /\ "tags" \in DOMAIN body => ValidTags(body.tags)
    /\ "assignee" \in DOMAIN body => IsMongoId(body.assignee)

TaskIdValidation(id) == IsMongoId(id)

MaxBulkIds == 50

\* a chain that tests the format of the first id only
BulkUpdateValidation_FirstId(body) ==
    /\ Len(body.taskIds) >= 1 /\ Len(body.taskIds) <= MaxBulkIds
    /\ IsMongoId(body.taskIds[1])
    /\ DOMAIN body.updates # {}
    /\ DOMAIN body.updates \subseteq {"status", "priority", "assignee", "tags"}
    /\ "status" \in DOMAIN body.updates => body.updates.status \in TaskStatuses
    /\ "priority" \in DOMAIN body.updates => body.updates.priority \in TaskPriorities
    /\ "assignee" \in DOMAIN body.updates => IsMongoId(body.updates.assignee)
    /\ "tags" \in DOMAIN body.updates => ValidTags(body.updates.tags)

BulkUpdateValidation(body) ==
    /\ Len(body.taskIds) >= 1 /\ Len(body.taskIds) <= MaxBulkIds
    /\ \A i \in 1..Len(body.taskIds) : IsMongoId(body.taskIds[i])
    /\ DOMAIN body.updates # {}
    /\ DOMAIN body.updates \subseteq {"status", "priority", "assignee", "tags"}
    /\ "status" \in DOMAIN body.updates => body.updates.status \in TaskStatuses
    /\ "priority" \in DOMAIN body.updates => body.updates.priority \in TaskPriorities
    /\ "assignee" \in DOMAIN body.updates => IsMongoId(body.updates.assignee)
    /\ "tags" \in DOMAIN body.updates => ValidTags(body.updates.tags)

(***************************************************************************)
(* models/Task.ts                                                          *)
(***************************************************************************)
\* the schema's validators, run on the paths an update sets (runValidators)
\* and on every path of a document that is saved
\* a validator that asks for a due date
DueDateValidator_Required(d) == d.k = "date" /\ d.t > now

DueDateValidator(d) == d.k = "date" => d.t > now

TagsValidator(tags) == Len(tags) <= MaxTags

\* toLowerCase().trim() of a tag
NormalizeTag(tag) ==
    CASE tag = "X" -> "x" [] tag = " x " -> "x" [] tag = "Y" -> "y" [] OTHER -> tag

RECURSIVE DedupeTags(_, _)
DedupeTags(tags, seen) ==
    IF tags = <<>> THEN <<>>
    ELSE IF Head(tags) = "" \/ Head(tags) \in seen
         THEN DedupeTags(Tail(tags), seen)
         ELSE <<Head(tags)>> \o DedupeTags(Tail(tags), seen \cup {Head(tags)})

\* a hook that stores the tags as given
PreSaveTags_AsGiven(tags) == tags

\* the pre("save") hook
PreSaveTags(tags) ==
    DedupeTags([i \in 1..Len(tags) |-> NormalizeTag(tags[i])], {})

\* Mongoose's cast of one body value to its schema path
CastPath(f, v) ==
    IF f = "dueDate" THEN CastDate(v)
    ELSE IF f \in {"assignee", "createdBy"} THEN ToObjectId(v)
    ELSE v

\* the document after $set of every schema path the update names
ApplyUpdate(task, updates) ==
    [f \in DOMAIN task |->
        IF f \in DOMAIN updates THEN CastPath(f, updates[f]) ELSE task[f]]

UpdateValidators(updates) ==
    /\ "dueDate" \in DOMAIN updates => DueDateValidator(CastDate(updates.dueDate))
    /\ "tags" \in DOMAIN updates => TagsValidator(updates.tags)

\* the virtual isOverdue
IsOverdue(task) ==
    task.dueDate.k = "date" /\ task.dueDate.t < now /\ task.status # DONE

(***************************************************************************)
(* controllers/tasks.ts                                                    *)
(***************************************************************************)
\* populate("assignee" / "createdBy"): the referenced user, or null
NullRef == NoId
Populate(ref) == IF ref \in DOMAIN users THEN ref ELSE NullRef

Populated(id, store) ==
    [_id |-> id, title |-> store[id].title, description |-> store[id].description,
     status |-> store[id].status, priority |-> store[id].priority,
     dueDate |-> store[id].dueDate, tags |-> store[id].tags,
     assignee |-> Populate(store[id].assignee),
     createdBy |-> Populate(store[id].createdBy)]

\* case-insensitive substring match of $regex, on the strings of the model
RegexMatch(term, text) ==
    <<term, text>> \in {<<"fix", "Fix bug">>, <<"DOC", "Write docs">>,
                        <<"i", "Fix bug">>, <<"i", "Write docs">>,
                        <<"login", "the login form">>}

\* the position of id in creation order (ObjectIds and createdAt grow together)
CreatedRank(id) == CHOOSE i \in 1..Len(TaskIdSeq) : TaskIdSeq[i] = id

\* a filter in which the assignee the query names wins over the caller's role
AssigneeFilter_QueryFirst(user, query, task) ==
    IF "assignee" \in DOMAIN query THEN task.assignee = ToObjectId(query.assignee)
    ELSE (user.role = MEMBER => task.assignee = user._id)

\* filter.assignee: the caller for a member, the query's assignee for an admin
AssigneeFilter(user, query, task) ==
    IF user.role = MEMBER THEN task.assignee = user._id
    ELSE ("assignee" \in DOMAIN query => task.assignee = ToObjectId(query.assignee))

\* the Mongo filter getTasks builds, as a predicate on a stored task
GetTasksFilter(user, query, task) ==
    /\ AssigneeFilter(user, query, task)
    /\ "search" \in DOMAIN query =>
          \/ RegexMatch(query.search, task.title)
          \/ RegexMatch(query.search, task.description)
    /\ "status" \in DOMAIN query => task.status = query.status
    /\ "priority" \in DOMAIN query => task.priority = query.priority
    /\ "tags" \in DOMAIN query =>
          \E i \in 1..Len(task.tags) : \E j \in 1..Len(query.tags) :
              task.tags[i] = query.tags[j]
    /\ "dueDateFrom" \in DOMAIN query =>
          task.dueDate.k = "date" /\ task.dueDate.t >= query.dueDateFrom.t
    /\ "dueDateTo" \in DOMAIN query =>
          task.dueDate.k = "date" /\ task.dueDate.t <= query.dueDateTo.t

Max2(a, b) == IF a >= b THEN a ELSE b
Min2(a, b) == IF a <= b THEN a ELSE b

\* page = 1 and limit = 10 unless the query gives them
PageNumber(query) == Max2(1, IF "page" \in DOMAIN query THEN query.page ELSE 1)
LimitNumber(query) ==
    Min2(100, Max2(1, IF "limit" \in DOMAIN query THEN query.limit ELSE 10))

\* a division that rounds down
CeilDiv_Floor(total, limit) == total \div limit

\* Math.ceil(total / limit)
CeilDiv(total, limit) == (total + limit - 1) \div limit

\* ids in creation order, ascending or descending (the createdAt sort)
RECURSIVE SortByCreated(_, _)
SortByCreated(ids, asc) ==
    IF ids = {} THEN <<>>
    ELSE LET first == CHOOSE x \in ids : \A y \in ids :
                          IF asc THEN CreatedRank(x) <= CreatedRank(y)
                          ELSE CreatedRank(x) >= CreatedRank(y)
         IN <<first>> \o SortByCreated(ids \ {first}, asc)

\* .skip(skip).limit(limit)
SkipLimit(seq, skip, limit) ==
    SubSeq(seq, skip + 1, Min2(Len(seq), skip + limit))

GetTasks(user, query) ==
    LET matching == {id \in DOMAIN tasks : GetTasksFilter(user, query, tasks[id])}
        pageNumber == PageNumber(query)
        limitNumber == LimitNumber(query)
        skip == (pageNumber - 1) * limitNumber
        asc == "sortOrder" \in DOMAIN query /\ query.sortOrder = "asc"
        page == SkipLimit(SortByCreated(matching, asc), skip, limitNumber)
        totalTasks == Cardinality(matching)
        totalPages == CeilDiv(totalTasks, limitNumber)
    IN Ok(200, "Tasks retrieved successfully",
          [tasks |-> [i \in 1..Len(page) |-> Populated(page[i], tasks)],
           pagination |->
              [currentPage |-> pageNumber, totalPages |-> totalPages,
               totalItems |-> totalTasks, itemsPerPage |-> limitNumber,
               hasNextPage |-> pageNumber < totalPages,
               hasPrevPage |-> pageNumber > 1]])

\* the member-may-only-touch-own-task check of getTaskById, updateTask, deleteTask
\* an ownership test against the task's creator
NotOwnTask_Creator(user, task) ==
    user.role = MEMBER
    /\ ObjectIdToString(task.createdBy) # ObjectIdToString(user._id)

NotOwnTask(user, task) ==
    user.role = MEMBER
    /\ ObjectIdToString(task.assignee) # ObjectIdToString(user._id)

\* updateTask's test for a new assignee: the body's string against the
\* stored id's toString()
\* a test that never sees a new assignee
AssigneeDiffers_Never(task, updates) == FALSE

AssigneeDiffers(task, updates) ==
    /\ "assignee" \in DOMAIN updates
    /\ updates.assignee # ObjectIdToString(task.assignee)

\* newValue !== undefined && JSON.stringify(newValue) !== JSON.stringify(originalValue)
\* with originalValue a field of task.toObject(): a Date for dueDate
FieldDiffers(task, updates, f) ==
    /\ f \in DOMAIN updates
    /\ updates[f] # (IF f = "dueDate" THEN DateToJSON(task[f]) ELSE task[f])

ChangedFields(task, updates) ==
    {f \in AuditedFields : FieldDiffers(task, updates, f)}
        \cup (IF AssigneeDiffers(task, updates) THEN {"assignee"} ELSE {})

\* the changes object updateTask logs
UpdateChanges(task, updates) ==
    [f \in ChangedFields(task, updates) |->
        [from |-> task[f], to |-> updates[f]]]

UpdateTask(user, id, updates) ==
    LET oid == ToObjectId(id) IN
    IF oid \notin DOMAIN tasks THEN Throw(404, "Task not found")
    ELSE IF NotOwnTask(user, tasks[oid])
    THEN Throw(403, "Access denied. You can only update your assigned tasks.")
    ELSE IF AssigneeDiffers(tasks[oid], updates)
            /\ ToObjectId(updates.assignee) \notin DOMAIN users
    THEN Throw(404, "Assignee not found")
    ELSE IF ~UpdateValidators(updates)
    THEN Throw(400, "Due date must be in the future")
    ELSE LET changes == UpdateChanges(tasks[oid], updates)
             updated == [tasks EXCEPT ![oid] = ApplyUpdate(tasks[oid], updates)]
         IN Result(200, "Task updated successfully",
                   [task |-> Populated(oid, updated)],
                   users, updated,
                   IF DOMAIN changes # {}
                   THEN Append(log, LogEntry(id, user._id, UPDATE, changes))
                   ELSE log,
                   nextTask)

\* the store without the document id
Without(store, id) == [x \in DOMAIN store \ {id} |-> store[x]]

\* a delete that also removes the task's entries from the activity log
DeleteTask_PurgeLog(user, id) ==
    LET oid == ToObjectId(id) IN
    IF oid \notin DOMAIN tasks THEN Throw(404, "Task not found")
    ELSE IF NotOwnTask(user, tasks[oid])
    THEN Throw(403, "Access denied. You can only delete your assigned tasks.")
    ELSE Result(200, "Task deleted successfully", <<>>,
                users, Without(tasks, oid),
                SelectSeq(log, LAMBDA e : e.taskId # oid),
                nextTask)

DeleteTask(user, id) ==
    LET oid == ToObjectId(id) IN
    IF oid \notin DOMAIN tasks THEN Throw(404, "Task not found")
    ELSE IF NotOwnTask(user, tasks[oid])
    THEN Throw(403, "Access denied. You can only delete your assigned tasks.")
    ELSE Result(200, "Task deleted successfully", <<>>,
                users, Without(tasks, oid),
                Append(log, LogEntry(id, user._id, DELETE,
                                     [title |-> tasks[oid].title])),
                nextTask)

\* body[f], or the schema's default when the body does not name f
BodyOr(body, f, default) == IF f \in DOMAIN body THEN body[f] ELSE default

\* the document Task.create saves: defaults, casts, then the pre("save") hook
NewTaskDoc(user, body) ==
    TaskDoc(body.title,
            BodyOr(body, "description", Undefined),
            BodyOr(body, "status", TODO),
            BodyOr(body, "priority", MEDIUM),
            IF "dueDate" \in DOMAIN body THEN CastDate(body.dueDate) ELSE NoDate,
            PreSaveTags(BodyOr(body, "tags", <<>>)),
            ToObjectId(body.assignee),
            user._id)

CreateTask(user, body) ==
    LET assignee == ToObjectId(body.assignee)
        doc == NewTaskDoc(user, body)
        id == TaskIdSeq[nextTask]
    IN
    IF assignee \notin DOMAIN users THEN Throw(404, "Assignee not found")
    ELSE IF ~(DueDateValidator(doc.dueDate) /\ TagsValidator(BodyOr(body, "tags", <<>>)))
    THEN Throw(400, "Due date must be in the future")
    ELSE LET created == [x \in DOMAIN tasks \cup {id} |->
                            IF x = id THEN doc ELSE tasks[x]]
         IN Result(201, "Task created successfully",
                   [task |-> Populated(id, created)],
                   users, created,
                   Append(log, LogEntry(id, user._id, CREATE,
                                        [title |-> body.title,
                                         assignee |-> users[assignee].email])),
                   nextTask + 1)

\* validTaskIds.map(taskId => ActivityLog.create(...)): one entry per listed id
RECURSIVE BulkLogEntries(_, _, _)
BulkLogEntries(ids, userId, updates) ==
    IF ids = <<>> THEN <<>>
    ELSE <<LogEntry(Head(ids), userId, UPDATE, [bulk |-> TRUE, updates |-> updates])>>
             \o BulkLogEntries(Tail(ids), userId, updates)

\* Task.updateMany({_id: {$in: ids}}, updates)
UpdateMany(store, ids, updates) ==
    [x \in DOMAIN store |->
        IF \E i \in 1..Len(ids) : ToObjectId(ids[i]) = x
        THEN ApplyUpdate(store[x], updates) ELSE store[x]]

\* a handler that does not look the new assignee up
BulkUpdateTasks_AnyAssignee(user, body) ==
    LET taskIds == body.taskIds
        updates == body.updates
        validTaskIds == SelectSeq(taskIds, ObjectIdIsValid)
    IN
    IF Len(validTaskIds) # Len(taskIds)
    THEN Throw(400, "One or more task IDs are invalid")
    ELSE IF ~UpdateValidators(updates)
    THEN Throw(400, "Cannot have more than 10 tags")
    ELSE Result(200, "Successfully updated task(s)", <<>>,
                users, UpdateMany(tasks, validTaskIds, updates),
                log \o BulkLogEntries(validTaskIds, user._id, updates),
                nextTask)

BulkUpdateTasks(user, body) ==
    LET taskIds == body.taskIds
        updates == body.updates
        validTaskIds == SelectSeq(taskIds, ObjectIdIsValid)
    IN
    IF Len(validTaskIds) # Len(taskIds)
    THEN Throw(400, "One or more task IDs are invalid")
    ELSE IF "assignee" \in DOMAIN updates
            /\ ToObjectId(updates.assignee) \notin DOMAIN users
    THEN Throw(404, "Assignee not found")
    ELSE IF ~UpdateValidators(updates)
    THEN Throw(400, "Cannot have more than 10 tags")
    ELSE Result(200, "Successfully updated task(s)",
                [matchedCount |->
                    Cardinality({x \in DOMAIN tasks :
                        \E i \in 1..Len(validTaskIds) :
                            ToObjectId(validTaskIds[i]) = x})],
                users, UpdateMany(tasks, validTaskIds, updates),
                log \o BulkLogEntries(validTaskIds, user._id, updates),
                nextTask)

\* a handler that returns the whole history of the task
GetTaskById_WholeHistory(user, id) ==
    LET oid == ToObjectId(id)
        history == SelectSeq(log, LAMBDA e : e.taskId = oid)
        newestFirst == [i \in 1..Len(history) |-> history[Len(history) + 1 - i]]
    IN
    IF oid \notin DOMAIN tasks THEN Throw(404, "Task not found")
    ELSE IF NotOwnTask(user, tasks[oid])
    THEN Throw(403, "Access denied. You can only view your assigned tasks.")
    ELSE Ok(200, "Task retrieved successfully",
            [task |-> Populated(oid, tasks), activityHistory |-> newestFirst])

GetTaskById(user, id) ==
    LET oid == ToObjectId(id)
        history == SelectSeq(log, LAMBDA e : e.taskId = oid)
        newestFirst == [i \in 1..Len(history) |-> history[Len(history) + 1 - i]]
    IN
    IF oid \notin DOMAIN tasks THEN Throw(404, "Task not found")
    ELSE IF NotOwnTask(user, tasks[oid])
    THEN Throw(403, "Access denied. You can only view your assigned tasks.")
    ELSE Ok(200, "Task retrieved successfully",
            [task |-> Populated(oid, tasks),
             activityHistory |-> SubSeq(newestFirst, 1, Min2(20, Len(newestFirst)))])

\* a query without the status condition
GetOverdueTasks_AnyStatus(user) ==
    LET overdue == {id \in DOMAIN tasks :
                       /\ tasks[id].dueDate.k = "date"
                       /\ tasks[id].dueDate.t < now
                       /\ user.role = MEMBER => tasks[id].assignee = user._id}
    IN Ok(200, "Overdue tasks retrieved successfully",
          [tasks |-> {Populated(id, tasks) : id \in overdue},
           count |-> Cardinality(overdue)])

GetOverdueTasks(user) ==
    LET overdue == {id \in DOMAIN tasks :
                       /\ tasks[id].dueDate.k = "date"
                       /\ tasks[id].dueDate.t < now
                       /\ tasks[id].status # DONE
                       /\ user.role = MEMBER => tasks[id].assignee = user._id}
    IN Ok(200, "Overdue tasks retrieved successfully",
          [tasks |-> {Populated(id, tasks) : id \in overdue},
           count |-> Cardinality(overdue)])

GetTasksByAssignee(user, assigneeId) ==
    IF ~ObjectIdIsValid(assigneeId) THEN Throw(400, "Invalid assignee ID format")
    ELSE IF ToObjectId(assigneeId) \notin DOMAIN users
    THEN Throw(404, "Assignee not found")
    ELSE Ok(200, "Tasks retrieved successfully",
            [tasks |-> {Populated(id, tasks) :
                           id \in {x \in DOMAIN tasks :
                                      tasks[x].assignee = ToObjectId(assigneeId)}}])

(***************************************************************************)
(* validation/user.ts                                                      *)
(***************************************************************************)
UserIdValidation(id) == IsMongoId(id)

UpdateUserRoleValidation(id, body) ==
    IsMongoId(id) /\ "role" \in DOMAIN body /\ body.role \in UserRoles

BulkUpdateUsersValidation(body) ==
    /\ Len(body.userIds) >= 1 /\ Len(body.userIds) <= MaxBulkIds
    /\ \A i \in 1..Len(body.userIds) : IsMongoId(body.userIds[i])
    /\ DOMAIN body.updates # {}
    /\ DOMAIN body.updates \subseteq {"role"}
    /\ "role" \in DOMAIN body.updates => body.updates.role \in UserRoles

GetUsersValidation(query) ==
    /\ "page" \in DOMAIN query => query.page >= 1
    /\ "limit" \in DOMAIN query => query.limit >= 1 /\ query.limit <= 100
    /\ "role" \in DOMAIN query => query.role \in UserRoles

GetTasksValidation(query) ==
    /\ "page" \in DOMAIN query => query.page >= 1
    /\ "limit" \in DOMAIN query => query.limit >= 1 /\ query.limit <= 100
    /\ "status" \in DOMAIN query => query.status \in TaskStatuses
    /\ "priority" \in DOMAIN query => query.priority \in TaskPriorities
    /\ "assignee" \in DOMAIN query => IsMongoId(query.assignee)
    /\ "sortOrder" \in DOMAIN query => query.sortOrder \in {"asc", "desc"}

(***************************************************************************)
(* controllers/users.ts                                                    *)
(***************************************************************************)
UserIdSeq == <<UA, UB, UC, UD>>     \* users in the order they registered

GetUsers(user, query) ==
    LET matching == SelectSeq(UserIdSeq,
                        LAMBDA u : /\ u \in DOMAIN users
                                   /\ "role" \in DOMAIN query =>
                                         users[u].role = query.role)
        asc == "sortOrder" \in DOMAIN query /\ query.sortOrder = "asc"
        sorted == IF asc THEN matching
                  ELSE [i \in 1..Len(matching) |-> matching[Len(matching) + 1 - i]]
        pageNumber == PageNumber(query)
        limitNumber == LimitNumber(query)
        page == SkipLimit(sorted, (pageNumber - 1) * limitNumber, limitNumber)
        totalUsers == Len(matching)
        totalPages == CeilDiv(totalUsers, limitNumber)
    IN Ok(200, "Users retrieved successfully",
          [users |-> [i \in 1..Len(page) |->
                         [_id |-> page[i], email |-> users[page[i]].email,
                          role |-> users[page[i]].role]],
           pagination |->
              [currentPage |-> pageNumber, totalPages |-> totalPages,
               totalItems |-> totalUsers, itemsPerPage |-> limitNumber,
               hasNextPage |-> pageNumber < totalPages,
               hasPrevPage |-> pageNumber > 1]])

\* req.user?._id.toString() === id: a comparison of strings
IsSelf(user, id) == ObjectIdToString(user._id) = id

UpdateUserRole(user, id, body) ==
    LET oid == ToObjectId(id) IN
    IF ~ObjectIdIsValid(id) THEN Throw(400, "Invalid user ID format")
    ELSE IF IsSelf(user, id) THEN Throw(400, "You cannot change your own role")
    ELSE IF oid \notin DOMAIN users THEN Throw(404, "User not found")
    ELSE LET updated == [users EXCEPT ![oid].role = body.role]
         IN Result(200, "User role updated successfully",
                   [user |-> [_id |-> oid, role |-> body.role]],
                   updated, tasks, log, nextTask)

\* a count of the tasks the user created
AssignedTasks_Created(store, oid) ==
    Cardinality({t \in DOMAIN store : store[t].createdBy = oid})

\* Task.countDocuments({assignee: id})
AssignedTasks(store, oid) ==
    Cardinality({t \in DOMAIN store : store[t].assignee = oid})

DeleteUser(user, id) ==
    LET oid == ToObjectId(id) IN
    IF ~ObjectIdIsValid(id) THEN Throw(400, "Invalid user ID format")
    ELSE IF IsSelf(user, id) THEN Throw(400, "You cannot delete your own account")
    ELSE IF oid \notin DOMAIN users THEN Throw(404, "User not found")
    ELSE IF AssignedTasks(tasks, oid) > 0
    THEN Throw(400, "Cannot delete user. They have assigned task(s).")
    ELSE Result(200, "User deleted successfully", <<>>,
                Without(users, oid), tasks, log, nextTask)

\* userIds.includes(req.user?._id.toString())
IncludesSelf(user, userIds) ==
    \E i \in 1..Len(userIds) : userIds[i] = ObjectIdToString(user._id)

BulkUpdateUsers(user, body) ==
    LET userIds == body.userIds
        updates == body.updates
        validUserIds == SelectSeq(userIds, ObjectIdIsValid)
        matched == {u \in DOMAIN users :
                       \E i \in 1..Len(validUserIds) : ToObjectId(validUserIds[i]) = u}
    IN
    IF Len(validUserIds) # Len(userIds)
    THEN Throw(400, "One or more user IDs are invalid")
    ELSE IF "role" \in DOMAIN updates /\ IncludesSelf(user, userIds)
    THEN Throw(400, "You cannot change your own role")
    ELSE Result(200, "Successfully updated user(s)",
                [matchedCount |-> Cardinality(matched)],
                [u \in DOMAIN users |->
                    IF u \in matched /\ "role" \in DOMAIN updates
                    THEN [users[u] EXCEPT !.role = updates.role]
                    ELSE users[u]],
                tasks, log, nextTask)

(***************************************************************************)
(* controllers/auth.ts                                                     *)
(***************************************************************************)
\* logout: clearTokenResponse overwrites the cookie; no store is touched
Logout == Ok(200, "Logged out successfully", <<>>)

VerifyToken(user) == Ok(200, "Token is valid", [user |-> user])

(***************************************************************************)
(* models/User.ts                                                          *)
(***************************************************************************)
PasswordMinLen == 6

\* a setter that stores the email as it was given
EmailSetter_AsGiven(email) == email

\* the lowercase and trim setters of userSchema.email, on the emails of the
\* model; Mongoose runs them on a document's value and on a query filter's
EmailSetter(email) ==
    CASE email = "Bob@X.io" -> "bob@x.io"
      [] email = "NEW@x.io" -> "new@x.io"
      [] OTHER -> email

\* pre("save"): bcrypt.hash(this.password, salt); the hash is not the password
HashPassword(password) == [bcrypt |-> password]

\* comparePassword: bcrypt.compare(candidatePassword, this.password)
ComparePassword(candidate, stored) == stored = HashPassword(candidate)

\* the validators of the schema paths register writes: password minlength
\* and the role enum (every email and name of the model matches its pattern)
UserValidators(doc) ==
    doc.password.n >= PasswordMinLen /\ doc.role \in UserRoles

\* what toJSON leaves of a user document: the password is deleted
UserJson(id, store) ==
    [f \in (DOMAIN store[id] \ {"password"}) \cup {"_id"} |->
        IF f = "_id" THEN id ELSE store[id][f]]

(***************************************************************************)
(* validation/auth.ts                                                      *)
(***************************************************************************)
\* registerValidation: the four fields of a user are given; a role, when
\* given, is one of the roles
RegisterValidation(body) ==
    /\ {"email", "password", "firstName", "lastName"} \subseteq DOMAIN body
    /\ "role" \in DOMAIN body => body.role \in UserRoles

LoginValidation(body) == {"email", "password"} \subseteq DOMAIN body

UpdateProfileValidation(body) ==
    \A f \in {"firstName", "lastName"} \cap DOMAIN body : body[f] # ""

ChangePasswordValidation(body) ==
    {"currentPassword", "newPassword"} \subseteq DOMAIN body

(***************************************************************************)
(* controllers/auth.ts: register, login, updateProfile, changePassword     *)
(***************************************************************************)
\* the document register hands to User.create: role is role || "member"
NewUserDoc(body) ==
    [email |-> EmailSetter(body.email),
     password |-> body.password,
     firstName |-> body.firstName,
     lastName |-> body.lastName,
     role |-> IF BodyOr(body, "role", "") = "" THEN MEMBER ELSE body.role]

\* the ids the store hands to new users, in order
NewUserIds == <<HexId("e"), HexId("f"), HexId("9")>>

Login(body) ==
    LET found == {u \in DOMAIN users : users[u].email = EmailSetter(body.email)} IN
    IF found = {} THEN Throw(401, "Invalid credentials")
    ELSE LET u == CHOOSE x \in found : TRUE IN
         IF ~ComparePassword(body.password, users[u].password)
         THEN Throw(401, "Invalid credentials")
         ELSE Ok(200, "Logged in successfully",
                 [user |-> UserJson(u, users), token |-> TokenOf(u)])

\* updateProfile: only firstName and lastName are taken from the body
UpdateProfile(user, body) ==
    LET fieldsToUpdate == [f \in {"firstName", "lastName"} \cap DOMAIN body |-> body[f]]
        updated == [users EXCEPT ![user._id] =
                       [g \in DOMAIN users[user._id] |->
                           IF g \in DOMAIN fieldsToUpdate THEN fieldsToUpdate[g]
                           ELSE users[user._id][g]]]
    IN Result(200, "Profile updated successfully",
              [user |-> UserJson(user._id, updated)], updated, tasks, log, nextTask)

ChangePassword(user, body) ==
    IF ~ComparePassword(body.currentPassword, users[user._id].password)
    THEN Throw(400, "Current password is incorrect")
    ELSE IF body.newPassword.n < PasswordMinLen
    THEN Throw(400, "Password must be at least 6 characters long")
    ELSE Result(200, "Password changed successfully", <<>>,
                [users EXCEPT ![user._id].password = HashPassword(body.newPassword)],
                tasks, log, nextTask)

(***************************************************************************)
(* controllers/stats.ts                                                    *)
(***************************************************************************)
\* {$lt: ["$dueDate", new Date()]} inside $cond: an aggregation comparison,
\* in which a missing or null dueDate orders before every date
AggDueBefore(task) == task.dueDate.k # "date" \/ task.dueDate.t < now

\* an aggregation whose $match has no role scope
GetOverviewStats_Unscoped(user) ==
    LET visible == DOMAIN tasks
    IN Ok(200, "Overview statistics retrieved successfully",
          [total |-> Cardinality(visible),
           byStatus |-> [st \in TaskStatuses |->
                            Cardinality({id \in visible : tasks[id].status = st})],
           byPriority |-> [pr \in TaskPriorities |->
                            Cardinality({id \in visible : tasks[id].priority = pr})],
           overdue |-> Cardinality({id \in visible :
                          AggDueBefore(tasks[id]) /\ tasks[id].status # DONE}),
           totalUsers |-> IF user.role = ADMIN THEN Cardinality(DOMAIN users) ELSE 0])

GetOverviewStats(user) ==
    LET isAdmin == user.role = ADMIN
        visible == {id \in DOMAIN tasks : isAdmin \/ tasks[id].assignee = user._id}
    IN Ok(200, "Overview statistics retrieved successfully",
          [total |-> Cardinality(visible),
           byStatus |-> [st \in TaskStatuses |->
                            Cardinality({id \in visible : tasks[id].status = st})],
           byPriority |-> [pr \in TaskPriorities |->
                            Cardinality({id \in visible : tasks[id].priority = pr})],
           overdue |-> Cardinality({id \in visible :
                          AggDueBefore(tasks[id]) /\ tasks[id].status # DONE}),
           totalUsers |-> IF isAdmin THEN Cardinality(DOMAIN users) ELSE 0])

\* the per-assignee totals of getTeamPerformance
GetTeamPerformance ==
    Ok(200, "Team performance retrieved successfully",
       [userStats |->
          [u \in {tasks[id].assignee : id \in DOMAIN tasks} |->
              [totalTasks |-> Cardinality({id \in DOMAIN tasks : tasks[id].assignee = u}),
               completedTasks |->
                  Cardinality({id \in DOMAIN tasks :
                      tasks[id].assignee = u /\ tasks[id].status = DONE})]]])

\* the systemMetrics of getSystemHealth
GetSystemHealth ==
    Ok(200, "System health retrieved successfully",
       [users |-> Cardinality(DOMAIN users), tasks |-> Cardinality(DOMAIN tasks),
        activityLogs |-> Len(log)])

\* the tag frequencies of getTaskAnalytics, over the caller's visible tasks
GetTaskAnalytics(user) ==
    LET visible == {id \in DOMAIN tasks :
                       user.role = ADMIN \/ tasks[id].assignee = user._id}
        allTags == UNION {{tasks[id].tags[i] : i \in 1..Len(tasks[id].tags)} : id \in visible}
    IN Ok(200, "Task analytics retrieved successfully",
          [tagStats |-> [tg \in allTags |->
              Cardinality({id \in visible :
                  \E i \in 1..Len(tasks[id].tags) : tasks[id].tags[i] = tg})]])

(***************************************************************************)
(* routes/*.ts and index.ts: which middleware runs before which handler    *)
(***************************************************************************)
\* routes registered after router.use(authenticate)
AuthenticatedRoutes ==
    {"GET /auth/verify", "PATCH /auth/profile", "POST /auth/change-password",
     "GET /tasks", "POST /tasks", "GET /tasks/overdue", "PATCH /tasks/bulk",
     "GET /tasks/assignee/:assigneeId", "GET /tasks/:id", "PATCH /tasks/:id",
     "DELETE /tasks/:id",
     "GET /stats/overview", "GET /stats/analytics", "GET /stats/team",
     "GET /stats/system",
     "GET /users", "PATCH /users/:id/role", "DELETE /users/:id",
     "PATCH /users/bulk"}

\* POST /auth/register, /auth/login and /auth/logout are registered before
\* router.use(authenticate) and are not among them

\* routes behind requireAdmin
AdminRoutes ==
    {"PATCH /tasks/bulk", "GET /tasks/assignee/:assigneeId",
     "GET /stats/team", "GET /stats/system",
     "GET /users", "PATCH /users/:id/role", "DELETE /users/:id",
     "PATCH /users/bulk"}

\* the route's validation chain and handler
Dispatch(req, user) ==
    CASE req.ep = "POST /auth/logout" -> Logout
      [] req.ep = "GET /auth/verify" -> VerifyToken(user)
      [] req.ep = "POST /auth/login" ->
            HandleValidationErrors(LoginValidation(req.body), Login(req.body))
      [] req.ep = "PATCH /auth/profile" ->
            HandleValidationErrors(UpdateProfileValidation(req.body),
                                   UpdateProfile(user, req.body))
      [] req.ep = "POST /auth/change-password" ->
            HandleValidationErrors(ChangePasswordValidation(req.body),
                                   ChangePassword(user, req.body))
      [] req.ep = "GET /tasks" ->
            HandleValidationErrors(GetTasksValidation(req.query),
                                   GetTasks(user, req.query))
      [] req.ep = "POST /tasks" ->
            HandleValidationErrors(CreateTaskValidation(req.body),
                                   CreateTask(user, req.body))
      [] req.ep = "GET /tasks/overdue" -> GetOverdueTasks(user)
      [] req.ep = "PATCH /tasks/bulk" ->
            HandleValidationErrors(BulkUpdateValidation(req.body),
                                   BulkUpdateTasks(user, req.body))
      [] req.ep = "GET /tasks/assignee/:assigneeId" ->
            GetTasksByAssignee(user, req.id)
      [] req.ep = "GET /tasks/:id" ->
            HandleValidationErrors(TaskIdValidation(req.id),
                                   GetTaskById(user, req.id))
      [] req.ep = "PATCH /tasks/:id" ->
            HandleValidationErrors(UpdateTaskValidation(req.id, req.body),
                                   UpdateTask(user, req.id, req.body))
      [] req.ep = "DELETE /tasks/:id" ->
            HandleValidationErrors(TaskIdValidation(req.id),
                                   DeleteTask(user, req.id))
      [] req.ep = "GET /stats/overview" -> GetOverviewStats(user)
      [] req.ep = "GET /stats/analytics" -> GetTaskAnalytics(user)
      [] req.ep = "GET /stats/team" -> GetTeamPerformance
      [] req.ep = "GET /stats/system" -> GetSystemHealth
      [] req.ep = "GET /users" ->
            HandleValidationErrors(GetUsersValidation(req.query),
                                   GetUsers(user, req.query))
      [] req.ep = "PATCH /users/:id/role" ->
            HandleValidationErrors(UpdateUserRoleValidation(req.id, req.body),
                                   UpdateUserRole(user, req.id, req.body))
      [] req.ep = "DELETE /users/:id" ->
            HandleValidationErrors(UserIdValidation(req.id),
                                   DeleteUser(user, req.id))
      [] req.ep = "PATCH /users/bulk" ->
            HandleValidationErrors(BulkUpdateUsersValidation(req.body),
                                   BulkUpdateUsers(user, req.body))

\* one request through its router: authenticate, requireAdmin, then the route
Serve(req) ==
    LET auth == Authenticate(req.tok) IN
    IF req.ep \in AuthenticatedRoutes /\ ~auth.ok
    THEN Throw(auth.status, auth.msg)
    ELSE IF req.ep \in AdminRoutes /\ ~RequireAdmin(auth.user)
    THEN Throw(403, "Access denied. Admin privileges required.")
    ELSE Dispatch([req EXCEPT !.body = SanitizedBody(req)],
                  IF auth.ok THEN auth.user ELSE NullRef)

(***************************************************************************)
(* The server: one action per endpoint.  A handler that is not suspended   *)
(* at an await runs from the request to the response in one step.          *)
(***************************************************************************)
NoBody == <<>>
NoQuery == <<>>

Answer(req) ==
    /\ LET r == Serve(req) IN
         /\ users' = r.users
         /\ tasks' = r.tasks
         /\ log' = r.log
         /\ nextTask' = r.nextTask
         /\ resp' = [req |-> req, status |-> r.status, msg |-> r.msg, data |-> r.data]
    /\ nreq' = nreq + 1
    /\ UNCHANGED <<now, inflight>>

PostLogout(tok) == Answer(Request("POST /auth/logout", tok, NoId, NoBody, NoQuery))
GetVerify(tok) == Answer(Request("GET /auth/verify", tok, NoId, NoBody, NoQuery))
PostLogin(body) == Answer(Request("POST /auth/login", NoToken, NoId, body, NoQuery))
PatchProfile(tok, body) ==
    Answer(Request("PATCH /auth/profile", tok, NoId, body, NoQuery))
PostChangePassword(tok, body) ==
    Answer(Request("POST /auth/change-password", tok, NoId, body, NoQuery))
GetTasksReq(tok, query) == Answer(Request("GET /tasks", tok, NoId, NoBody, query))
PostTask(tok, body) ==
    /\ nextTask <= Len(TaskIdSeq)
    /\ Answer(Request("POST /tasks", tok, NoId, body, NoQuery))
GetOverdue(tok) == Answer(Request("GET /tasks/overdue", tok, NoId, NoBody, NoQuery))
PatchTasksBulk(tok, body) == Answer(Request("PATCH /tasks/bulk", tok, NoId, body, NoQuery))
GetByAssignee(tok, id) ==
    Answer(Request("GET /tasks/assignee/:assigneeId", tok, id, NoBody, NoQuery))
GetTask(tok, id) == Answer(Request("GET /tasks/:id", tok, id, NoBody, NoQuery))
PatchTask(tok, id, body) == Answer(Request("PATCH /tasks/:id", tok, id, body, NoQuery))
DeleteTaskReq(tok, id) == Answer(Request("DELETE /tasks/:id", tok, id, NoBody, NoQuery))
GetStats(tok, which) == Answer(Request(which, tok, NoId, NoBody, NoQuery))
GetUsersReq(tok, query) == Answer(Request("GET /users", tok, NoId, NoBody, query))
PatchUserRole(tok, id, body) ==
    Answer(Request("PATCH /users/:id/role", tok, id, body, NoQuery))
DeleteUserReq(tok, id) == Answer(Request("DELETE /users/:id", tok, id, NoBody, NoQuery))
PatchUsersBulk(tok, body) == Answer(Request("PATCH /users/bulk", tok, NoId, body, NoQuery))

\* time passes between requests
Tick ==
    /\ now < MaxTime
    /\ now' = now + 1
    /\ UNCHANGED <<users, tasks, log, nextTask, resp, nreq, inflight>>

(***************************************************************************)
(* The state the specifications start from: three registered users (a      *)
(* fourth was deleted), two tasks, and the log entries of their creation.  *)
(***************************************************************************)
EmailOf(u) ==
    CASE u = UA -> "ann@x.io" [] u = UB -> "bob@x.io"
      [] u = UC -> "cy@x.io" [] OTHER -> "dee@x.io"

InitTasks ==
    [id \in {T1, T2} |->
        IF id = T1
        THEN TaskDoc("Fix bug", Undefined, TODO, MEDIUM, DateAt(2), <<"x">>, UB, UA)
        ELSE TaskDoc("Write docs", "the login form", DONE, HIGH, NoDate, <<>>, UC, UB)]

InitLog ==
    <<[taskId |-> T1, userId |-> UA, action |-> CREATE,
       changes |-> [title |-> "Fix bug", assignee |-> EmailOf(UB)], timestamp |-> 0],
      [taskId |-> T2, userId |-> UB, action |-> CREATE,
       changes |-> [title |-> "Write docs", assignee |-> EmailOf(UC)], timestamp |-> 0]>>

NoResponse == [req |-> Request("", NoToken, NoId, NoBody, NoQuery),
               status |-> 0, msg |-> "", data |-> <<>>]

\* the same store after UB cleared T1's due date and replaced its tags
EditedStore ==
    [tasks |-> [InitTasks EXCEPT ![T1].dueDate = NullDate, ![T1].tags = <<"X", "y">>],
     log |-> Append(InitLog,
                [taskId |-> T1, userId |-> UB, action |-> UPDATE,
                 changes |-> [dueDate |-> [from |-> DateAt(2), to |-> NullDate],
                              tags |-> [from |-> <<"x">>, to |-> <<"X", "y">>]],
                 timestamp |-> 0])]

\* the same store after the admin reassigned T2 to UB
ReassignedStore ==
    [tasks |-> [InitTasks EXCEPT ![T2].assignee = UB],
     log |-> Append(InitLog,
                [taskId |-> T2, userId |-> UA, action |-> UPDATE,
                 changes |-> [assignee |-> [from |-> UC, to |-> UB]],
                 timestamp |-> 0])]

\* the same store after UB moved T1 to in-progress and back to todo ten times
BusyStore ==
    [tasks |-> InitTasks,
     log |-> InitLog \o
                [i \in 1..20 |->
                    [taskId |-> T1, userId |-> UB, action |-> UPDATE,
                     changes |-> [status |->
                        IF i % 2 = 1 THEN [from |-> TODO, to |-> IN_PROGRESS]
                        ELSE [from |-> IN_PROGRESS, to |-> TODO]],
                     timestamp |-> 0]]]

InitStores ==
    {[tasks |-> InitTasks, log |-> InitLog], EditedStore, ReassignedStore, BusyStore}

InitWith(roles, stores, calls) ==
    /\ users = [u \in {UA, UB, UC} |-> [email |-> EmailOf(u), role |-> roles[u]]]
    /\ \E st \in stores : tasks = st.tasks /\ log = st.log
    /\ nextTask = 3
    /\ now = 1
    /\ resp = NoResponse
    /\ nreq = 0
    /\ inflight = calls

(***************************************************************************)
(* Spec: the task endpoints, called one request at a time by the three     *)
(* users with their session tokens.                                        *)
(***************************************************************************)

SessionTokens == {TokenOf(UA), TokenOf(UB), TokenOf(UC)}

TaskIdInputs == {T1, T2}

\* request bodies of PATCH /tasks/:id
UpdateBodies ==
    {[status |-> IN_PROGRESS], [status |-> TODO],
     [title |-> "Write docs"],
     [description |-> "the login form"],
     [priority |-> HIGH],
     [dueDate |-> DateStr(2, TRUE)], [dueDate |-> DateStr(2, FALSE)],
     [dueDate |-> DateStr(4, FALSE)], [dueDate |-> NullDate],
     [tags |-> <<"X", "y">>],
     [assignee |-> HexId("B")], [assignee |-> UC], [assignee |-> UD],
     [status |-> IN_PROGRESS, dueDate |-> DateStr(2, FALSE)],
     [title |-> "Fix bug", status |-> TODO, priority |-> MEDIUM,
      dueDate |-> DateStr(2, TRUE), tags |-> <<"x">>, assignee |-> UB]}

\* query strings of GET /tasks
TaskQueries ==
    {NoQuery,
     [assignee |-> UB], [assignee |-> HexId("C")],
     [assignee |-> UC, status |-> DONE], [search |-> "i", priority |-> HIGH],
     [tags |-> <<"x", "y">>, dueDateFrom |-> DateStr(2, TRUE),
      dueDateTo |-> DateStr(3, TRUE)],
     [page |-> 2, limit |-> 1, sortOrder |-> "asc"]}

\* request bodies of POST /tasks
CreateBodies ==
    {[title |-> "Fix bug", assignee |-> UC],
     [title |-> "Write docs", assignee |-> HexId("B"), status |-> IN_PROGRESS,
      priority |-> LOW, dueDate |-> DateStr(3, FALSE), tags |-> <<"X", " x ", "y">>],
     [title |-> "Fix bug", assignee |-> UD],
     [title |-> "Fix bug", assignee |-> UC, dueDate |-> DateStr(1, TRUE)],
     [title |-> "Fix bug", assignee |-> UB, dueDate |-> DateStr(2, TRUE)]}

Init ==
    InitWith([u \in UserOids |-> IF u = UA THEN ADMIN ELSE MEMBER], InitStores, <<>>)


Next ==
    \/ nreq < MaxReqs /\ \E tok \in SessionTokens, query \in TaskQueries : GetTasksReq(tok, query)
    \/ nreq < MaxReqs /\ \E tok \in SessionTokens, id \in TaskIdInputs, body \in UpdateBodies :
                  PatchTask(tok, id, body)
    \/ nreq < MaxReqs /\ \E tok \in SessionTokens, id \in TaskIdInputs \cup {T3} :
                  DeleteTaskReq(tok, id)
    \/ nreq < MaxReqs /\ \E tok \in SessionTokens, body \in CreateBodies : PostTask(tok, body)
    \/ nreq < MaxReqs /\ \E tok \in SessionTokens, id \in TaskIdInputs \cup {T3} :
                  GetTask(tok, id)
    \/ Tick

Spec == Init /\ [][Next]_vars

(***************************************************************************)
(* SpecAccess: every endpoint, called with every kind of token: none,      *)
(* forged, expired, a deleted user's, a member's, an admin's.              *)
(***************************************************************************)
AllTokens ==
    {NoToken, ForgedToken, ExpiredToken(UA),
     TokenOf(UA), TokenOf(UB), TokenOf(UC), TokenOf(UD)}

StatsRoutes ==
    {"GET /stats/overview", "GET /stats/analytics", "GET /stats/team",
     "GET /stats/system"}

\* spellings of user ids that pass isMongoId
UserIdInputs == {UA, HexId("A"), UB, HexId("B"), UC}

BulkTaskBodies ==
    {[taskIds |-> <<T1, T2>>, updates |-> [assignee |-> UB]],
     [taskIds |-> <<T1, T3>>, updates |-> [status |-> DONE]]}

BulkUserBodies ==
    {[userIds |-> <<UB, UC>>, updates |-> [role |-> MEMBER]],
     [userIds |-> <<UC, HexId("A")>>, updates |-> [role |-> MEMBER]],
     [userIds |-> <<UA, UC>>, updates |-> [role |-> ADMIN]]}

\* query strings that page through GET /tasks and GET /users
PageQueries ==
    {NoQuery, [page |-> 2, limit |-> 1], [page |-> 3, limit |-> 2]}

InitAccess ==
    InitWith([u \in UserOids |-> IF u = UC THEN MEMBER ELSE ADMIN],
             {[tasks |-> InitTasks, log |-> InitLog]}, <<>>)


NextAccess ==
    \/ nreq < MaxAccessReqs /\ \E tok \in AllTokens : PostLogout(tok)
    \/ nreq < MaxAccessReqs /\ \E tok \in AllTokens : GetVerify(tok)
    \/ nreq < MaxAccessReqs /\ \E tok \in AllTokens, query \in PageQueries :
            GetTasksReq(tok, query)
    \/ nreq < MaxAccessReqs /\ \E tok \in AllTokens :
            PostTask(tok, [title |-> "Fix bug", assignee |-> UC])
    \/ nreq < MaxAccessReqs /\ \E tok \in AllTokens : GetOverdue(tok)
    \/ nreq < MaxAccessReqs /\ \E tok \in AllTokens, body \in BulkTaskBodies :
            PatchTasksBulk(tok, body)
    \/ nreq < MaxAccessReqs /\ \E tok \in AllTokens : GetByAssignee(tok, UC)
    \/ nreq < MaxAccessReqs /\ \E tok \in AllTokens : GetTask(tok, T1)
    \/ nreq < MaxAccessReqs /\ \E tok \in AllTokens : PatchTask(tok, T2, [assignee |-> UB])
    \/ nreq < MaxAccessReqs /\ \E tok \in AllTokens : DeleteTaskReq(tok, T1)
    \/ nreq < MaxAccessReqs /\ \E tok \in AllTokens, which \in StatsRoutes : GetStats(tok, which)
    \/ nreq < MaxAccessReqs /\ \E tok \in AllTokens,
                                  query \in PageQueries \cup {[role |-> MEMBER]} :
            GetUsersReq(tok, query)
    \/ nreq < MaxAccessReqs /\ \E tok \in AllTokens, id \in UserIdInputs, role \in UserRoles :
                      PatchUserRole(tok, id, [role |-> role])
    \/ nreq < MaxAccessReqs /\ \E tok \in AllTokens, id \in UserIdInputs : DeleteUserReq(tok, id)
    \/ nreq < MaxAccessReqs /\ \E tok \in AllTokens, body \in BulkUserBodies :
            PatchUsersBulk(tok, body)

SpecAccess == InitAccess /\ [][NextAccess]_vars


(***************************************************************************)
(* SpecLife: the life of a task.  The admin UA and the member UB create    *)
(* tasks, read them back, edit them one at a time and in bulk, and list    *)
(* the overdue ones while the clock advances.                              *)
(***************************************************************************)
\* request bodies of POST /tasks, PATCH /tasks/:id and PATCH /tasks/bulk
LifeBodies ==
    [create |->
        {[title |-> " Fix bug ", description |-> "the login form",
          assignee |-> HexId("B")],
         [title |-> "Write docs", assignee |-> UB, status |-> DONE,
          priority |-> URGENT, dueDate |-> DateStr(3, FALSE),
          tags |-> <<"X", " x ", "y">>],
         [title |-> "Fix bug", assignee |-> UC]},
     update |->
        {[tags |-> <<"X", "x", "x">>], [createdBy |-> UC],
         [status |-> DONE], [dueDate |-> NullDate]},
     bulk |->
        {[taskIds |-> <<T1, T2>>, updates |-> [status |-> IN_PROGRESS]],
         [taskIds |-> <<T1, T3>>, updates |-> [priority |-> LOW]],
         [taskIds |-> <<T2, T2>>, updates |-> [priority |-> LOW]],
         [taskIds |-> <<T1>>, updates |-> [tags |-> <<"Y">>]],
         [taskIds |-> <<T1, T2>>, updates |-> [assignee |-> UD]],
         [taskIds |-> <<Repeat("z", ObjectIdLen), T1>>, updates |-> [status |-> DONE]],
         [taskIds |-> <<T1, Repeat("a", 12)>>, updates |-> [status |-> DONE]],
         [taskIds |-> <<T1, Repeat("a", 23), T2>>, updates |-> [status |-> DONE]]}]

\* the two tasks of InitTasks, both created with a due date of 1
InitLife ==
    InitWith([u \in UserOids |-> IF u = UA THEN ADMIN ELSE MEMBER],
             {[tasks |-> [InitTasks EXCEPT ![T1].dueDate = DateAt(1),
                                           ![T2].dueDate = DateAt(1)],
               log |-> InitLog]},
             <<>>)

NextLife ==
    \/ nreq < MaxLifeReqs /\ \E tok \in {TokenOf(UA), TokenOf(UB)}, body \in LifeBodies.create :
            PostTask(tok, body)
    \/ nreq < MaxLifeReqs /\ \E tok \in {TokenOf(UA), TokenOf(UB)}, id \in {T1, T2, T3} :
            GetTask(tok, id)
    \/ nreq < MaxLifeReqs /\ \E tok \in {TokenOf(UA), TokenOf(UB)}, id \in {T1, T3},
                                 body \in LifeBodies.update :
            PatchTask(tok, id, body)
    \/ nreq < MaxLifeReqs /\ \E tok \in {TokenOf(UA), TokenOf(UB)}, body \in LifeBodies.bulk :
            PatchTasksBulk(tok, body)
    \/ nreq < MaxLifeReqs /\ \E tok \in {TokenOf(UA), TokenOf(UB)} : GetOverdue(tok)
    \/ Tick

SpecLife == InitLife /\ [][NextLife]_vars


(***************************************************************************)
(* SpecRace: the handlers that write users and tasks, run concurrently.     *)
(* Node runs a handler without interruption up to an await of a database   *)
(* call; the database executes each call atomically, and between two calls *)
(* of one request the calls of other requests may execute.  A step below   *)
(* is one database call of a request in flight, together with the code     *)
(* that follows it up to the next call or the response.                     *)
(***************************************************************************)
Slots == {1, 2}

Idle == [pc |-> "idle"]

\* a request suspended before the database call pc, with the handler's locals:
\* req.user, the document it holds (task / originalTask) and assigneeUser.email
Call(pc, req, user, doc, email) ==
    [pc |-> pc, req |-> req, user |-> user, doc |-> doc, email |-> email]

NoDoc == [_id |-> NoId]

\* the validation chain of the route
RouteValidation(req) ==
    CASE req.ep = "POST /tasks" -> CreateTaskValidation(req.body)
      [] req.ep = "PATCH /tasks/bulk" -> BulkUpdateValidation(req.body)
      [] req.ep = "PATCH /tasks/:id" -> UpdateTaskValidation(req.id, req.body)
      [] req.ep = "DELETE /tasks/:id" -> TaskIdValidation(req.id)
      [] req.ep = "DELETE /users/:id" -> UserIdValidation(req.id)
      [] req.ep = "POST /auth/register" -> RegisterValidation(req.body)

\* what the handler does before its first await: a thrown error, or status 0
HandlerEntry(req, user) ==
    CASE req.ep = "DELETE /users/:id" ->
            IF ~ObjectIdIsValid(req.id) THEN Throw(400, "Invalid user ID format")
            ELSE IF IsSelf(user, req.id)
            THEN Throw(400, "You cannot delete your own account")
            ELSE Ok(0, "", <<>>)
      [] req.ep = "PATCH /tasks/bulk" ->
            IF Len(SelectSeq(req.body.taskIds, ObjectIdIsValid)) # Len(req.body.taskIds)
            THEN Throw(400, "One or more task IDs are invalid")
            ELSE Ok(0, "", <<>>)
      [] OTHER -> Ok(0, "", <<>>)

\* the first database call of the handler
FirstAwait(req) ==
    CASE req.ep = "DELETE /users/:id" -> "findUser"
      [] req.ep = "POST /auth/register" -> "findEmail"
      [] req.ep = "POST /tasks" -> "findAssignee"
      [] req.ep = "PATCH /tasks/bulk" ->
            IF "assignee" \in DOMAIN req.body.updates THEN "findAssignee"
            ELSE "updateMany"
      [] OTHER -> "findTask"

\* res.status(status).json(...): the request leaves its slot
Respond(s, status, msg, data) ==
    /\ resp' = [req |-> inflight[s].req, status |-> status, msg |-> msg, data |-> data]
    /\ nreq' = nreq + 1
    /\ inflight' = [inflight EXCEPT ![s] = Idle]

Suspend(s, pc, doc, email) ==
    /\ inflight' = [inflight EXCEPT ![s].pc = pc, ![s].doc = doc, ![s].email = email]
    /\ UNCHANGED <<resp, nreq>>

\* a request arrives: authenticate's User.findById on the routes behind it,
\* requireAdmin, the validation chain, and the handler up to its first await
Receive(s, req) ==
    /\ inflight[s] = Idle
    /\ \A r \in Slots : r < s => inflight[r] # Idle
    /\ nreq + Cardinality({r \in Slots : inflight[r] # Idle}) < MaxRaceReqs
    /\ LET auth == Authenticate(req.tok)
           clean == [req EXCEPT !.body = SanitizedBody(req)]
           user == IF auth.ok THEN auth.user ELSE NullRef
           door == IF req.ep \in AuthenticatedRoutes /\ ~auth.ok
                   THEN Throw(auth.status, auth.msg)
                   ELSE IF req.ep \in AdminRoutes /\ ~RequireAdmin(auth.user)
                   THEN Throw(403, "Access denied. Admin privileges required.")
                   ELSE HandleValidationErrors(RouteValidation(clean),
                                               HandlerEntry(clean, user))
       IN IF door.status # 0
          THEN /\ resp' = [req |-> req, status |-> door.status,
                           msg |-> door.msg, data |-> door.data]
               /\ nreq' = nreq + 1
               /\ UNCHANGED inflight
          ELSE /\ inflight' = [inflight EXCEPT
                                 ![s] = Call(FirstAwait(req), clean, user, NoDoc, "")]
               /\ UNCHANGED <<resp, nreq>>
    /\ UNCHANGED <<users, tasks, log, nextTask, now>>

\* register: User.findOne({email})
FindUserByEmail(s) ==
    LET c == inflight[s] IN
    /\ c.pc = "findEmail"
    /\ IF \E u \in DOMAIN users : users[u].email = EmailSetter(c.req.body.email)
       THEN Respond(s, 400, "User with this email already exists", <<>>)
       ELSE Suspend(s, "createUser", NoDoc, "")
    /\ UNCHANGED <<users, tasks, log, nextTask, now>>

\* register: User.create(...), with the schema validators and the unique
\* index on email (E11000, answered 400 by errorHandler), and
\* sendTokenResponse
CreateUser(s) ==
    LET c == inflight[s]
        doc == NewUserDoc(c.req.body)
        free == {i \in 1..Len(NewUserIds) : NewUserIds[i] \notin DOMAIN users}
        id == NewUserIds[CHOOSE i \in free : \A j \in free : i <= j]
        saved == [x \in DOMAIN users \cup {id} |->
                     IF x = id THEN [doc EXCEPT !.password = HashPassword(doc.password)]
                     ELSE users[x]]
    IN
    /\ c.pc = "createUser"
    /\ free # {}
    /\ IF ~UserValidators(doc)
       THEN /\ Respond(s, 400, "Password must be at least 6 characters long", <<>>)
            /\ UNCHANGED users
       ELSE IF \E u \in DOMAIN users : users[u].email = doc.email
       THEN Respond(s, 400, "email already exists", <<>>) /\ UNCHANGED users
       ELSE /\ users' = saved
            /\ Respond(s, 201, "User registered successfully",
                       [user |-> UserJson(id, saved), token |-> TokenOf(id)])
    /\ UNCHANGED <<tasks, log, nextTask, now>>

\* deleteUser: User.findById(id)
FindUser(s) ==
    /\ inflight[s].pc = "findUser"
    /\ IF ToObjectId(inflight[s].req.id) \notin DOMAIN users
       THEN Respond(s, 404, "User not found", <<>>)
       ELSE Suspend(s, "countTasks", NoDoc, "")
    /\ UNCHANGED <<users, tasks, log, nextTask, now>>

\* deleteUser: Task.countDocuments({assignee: id})
CountTasks(s) ==
    /\ inflight[s].pc = "countTasks"
    /\ IF AssignedTasks(tasks, ToObjectId(inflight[s].req.id)) > 0
       THEN Respond(s, 400, "Cannot delete user. They have assigned task(s).", <<>>)
       ELSE Suspend(s, "removeUser", NoDoc, "")
    /\ UNCHANGED <<users, tasks, log, nextTask, now>>

\* deleteUser: User.findByIdAndDelete(id)
RemoveUser(s) ==
    /\ inflight[s].pc = "removeUser"
    /\ users' = Without(users, ToObjectId(inflight[s].req.id))
    /\ Respond(s, 200, "User deleted successfully", <<>>)
    /\ UNCHANGED <<tasks, log, nextTask, now>>

\* createTask, updateTask, bulkUpdateTasks: User.findById(assignee)
FindAssignee(s) ==
    LET c == inflight[s]
        assignee == IF c.req.ep = "PATCH /tasks/bulk"
                    THEN c.req.body.updates.assignee ELSE c.req.body.assignee
    IN
    /\ c.pc = "findAssignee"
    /\ IF ToObjectId(assignee) \notin DOMAIN users
       THEN Respond(s, 404, "Assignee not found", <<>>)
       ELSE Suspend(s, CASE c.req.ep = "POST /tasks" -> "create"
                         [] c.req.ep = "PATCH /tasks/bulk" -> "updateMany"
                         [] OTHER -> "update",
                    c.doc, users[ToObjectId(assignee)].email)
    /\ UNCHANGED <<users, tasks, log, nextTask, now>>

\* createTask: Task.create(...)
SaveTask(s) ==
    LET c == inflight[s]
        doc == NewTaskDoc(c.user, c.req.body)
        id == TaskIdSeq[nextTask]
    IN
    /\ c.pc = "create"
    /\ nextTask <= Len(TaskIdSeq)
    /\ IF ~(DueDateValidator(doc.dueDate)
            /\ TagsValidator(BodyOr(c.req.body, "tags", <<>>)))
       THEN /\ Respond(s, 400, "Due date must be in the future", <<>>)
            /\ UNCHANGED <<tasks, nextTask>>
       ELSE /\ tasks' = [x \in DOMAIN tasks \cup {id} |->
                           IF x = id THEN doc ELSE tasks[x]]
            /\ nextTask' = nextTask + 1
            /\ Suspend(s, "logCreate",
                       [f \in DOMAIN doc \cup {"_id"} |->
                           IF f = "_id" THEN id ELSE doc[f]],
                       c.email)
    /\ UNCHANGED <<users, log, now>>

\* createTask: the two populate calls and ActivityLog.create(...)
LogCreate(s) ==
    LET c == inflight[s]
        id == c.doc._id
    IN
    /\ c.pc = "logCreate"
    /\ log' = Append(log, LogEntry(id, c.user._id, CREATE,
                                   [title |-> c.req.body.title, assignee |-> c.email]))
    /\ Respond(s, 201, "Task created successfully",
               [task |-> Populated(id, [x \in {id} |-> c.doc])])
    /\ UNCHANGED <<users, tasks, nextTask, now>>

\* updateTask, deleteTask: Task.findById(id) and the ownership test
FindTask(s) ==
    LET c == inflight[s]
        oid == ToObjectId(c.req.id)
    IN
    /\ c.pc = "findTask"
    /\ IF oid \notin DOMAIN tasks THEN Respond(s, 404, "Task not found", <<>>)
       ELSE IF NotOwnTask(c.user, tasks[oid])
       THEN Respond(s, 403, "Access denied. You can only change your assigned tasks.",
                    <<>>)
       ELSE Suspend(s, IF c.req.ep = "DELETE /tasks/:id" THEN "remove"
                       ELSE IF AssigneeDiffers(tasks[oid], c.req.body)
                       THEN "findAssignee" ELSE "update",
                    tasks[oid], "")
    /\ UNCHANGED <<users, tasks, log, nextTask, now>>

\* updateTask: Task.findByIdAndUpdate(id, updates, {runValidators: true})
UpdateStored(s) ==
    LET c == inflight[s]
        oid == ToObjectId(c.req.id)
        updated == IF oid \in DOMAIN tasks
                   THEN [tasks EXCEPT ![oid] = ApplyUpdate(tasks[oid], c.req.body)]
                   ELSE tasks
    IN
    /\ c.pc = "update"
    /\ IF ~UpdateValidators(c.req.body)
       THEN Respond(s, 400, "Due date must be in the future", <<>>) /\ UNCHANGED tasks
       ELSE /\ tasks' = updated
            /\ IF ChangedFields(c.doc, c.req.body) # {}
               THEN Suspend(s, "logUpdate", c.doc, c.email)
               ELSE Respond(s, 200, "Task updated successfully",
                            [task |-> IF oid \in DOMAIN tasks
                                      THEN Populated(oid, updated) ELSE NoDoc])
    /\ UNCHANGED <<users, log, nextTask, now>>

\* updateTask: ActivityLog.create(...) with the changes against originalTask
LogUpdate(s) ==
    LET c == inflight[s]
        oid == ToObjectId(c.req.id)
    IN
    /\ c.pc = "logUpdate"
    /\ log' = Append(log, LogEntry(c.req.id, c.user._id, UPDATE,
                                   UpdateChanges(c.doc, c.req.body)))
    /\ Respond(s, 200, "Task updated successfully",
               [task |-> IF oid \in DOMAIN tasks THEN Populated(oid, tasks) ELSE NoDoc])
    /\ UNCHANGED <<users, tasks, nextTask, now>>

\* deleteTask: Task.findByIdAndDelete(id)
RemoveTask(s) ==
    /\ inflight[s].pc = "remove"
    /\ tasks' = Without(tasks, ToObjectId(inflight[s].req.id))
    /\ Suspend(s, "logDelete", inflight[s].doc, "")
    /\ UNCHANGED <<users, log, nextTask, now>>

\* deleteTask: ActivityLog.create(...)
LogDelete(s) ==
    LET c == inflight[s] IN
    /\ c.pc = "logDelete"
    /\ log' = Append(log, LogEntry(c.req.id, c.user._id, DELETE,
                                   [title |-> c.doc.title]))
    /\ Respond(s, 200, "Task deleted successfully", <<>>)
    /\ UNCHANGED <<users, tasks, nextTask, now>>

\* bulkUpdateTasks: Task.updateMany(...)
UpdateManyTasks(s) ==
    LET c == inflight[s]
        ids == c.req.body.taskIds
    IN
    /\ c.pc = "updateMany"
    /\ IF ~UpdateValidators(c.req.body.updates)
       THEN Respond(s, 400, "Cannot have more than 10 tags", <<>>) /\ UNCHANGED tasks
       ELSE /\ tasks' = UpdateMany(tasks, ids, c.req.body.updates)
            /\ Suspend(s, "logBulk",
                       [_id |-> NoId,
                        matchedCount |->
                           Cardinality({x \in DOMAIN tasks :
                               \E i \in 1..Len(ids) : ToObjectId(ids[i]) = x})],
                       "")
    /\ UNCHANGED <<users, log, nextTask, now>>

\* bulkUpdateTasks: Promise.all of one ActivityLog.create per listed id
LogBulk(s) ==
    LET c == inflight[s] IN
    /\ c.pc = "logBulk"
    /\ log' = log \o BulkLogEntries(c.req.body.taskIds, c.user._id, c.req.body.updates)
    /\ Respond(s, 200, "Successfully updated task(s)",
               [matchedCount |-> c.doc.matchedCount])
    /\ UNCHANGED <<users, tasks, nextTask, now>>

\* the requests that race: UC has no task; the admin deletes UC while others
\* create, reassign, update and delete tasks
RaceRequests ==
    {Request("DELETE /users/:id", TokenOf(UA), UC, NoBody, NoQuery),
     Request("POST /tasks", TokenOf(UB), NoId,
             [title |-> "Fix bug", assignee |-> UC], NoQuery),
     Request("PATCH /tasks/:id", TokenOf(UB), T1, [assignee |-> UC], NoQuery),
     Request("PATCH /tasks/:id", TokenOf(UA), T1, [status |-> IN_PROGRESS], NoQuery),
     Request("PATCH /tasks/bulk", TokenOf(UA), NoId,
             [taskIds |-> <<T1>>, updates |-> [assignee |-> UC]], NoQuery),
     Request("PATCH /tasks/bulk", TokenOf(UA), NoId,
             [taskIds |-> <<T1, T2>>, updates |-> [priority |-> LOW]], NoQuery),
     Request("DELETE /tasks/:id", TokenOf(UB), T1, NoBody, NoQuery)}

InitRace ==
    InitWith([u \in UserOids |-> IF u = UA THEN ADMIN ELSE MEMBER],
             {ReassignedStore},
             [s \in Slots |-> Idle])

NextRace ==
    \/ \E s \in Slots, req \in RaceRequests : Receive(s, req)
    \/ \E s \in Slots : FindUser(s)
    \/ \E s \in Slots : CountTasks(s)
    \/ \E s \in Slots : RemoveUser(s)
    \/ \E s \in Slots : FindAssignee(s)
    \/ \E s \in Slots : SaveTask(s)
    \/ \E s \in Slots : LogCreate(s)
    \/ \E s \in Slots : FindTask(s)
    \/ \E s \in Slots : UpdateStored(s)
    \/ \E s \in Slots : LogUpdate(s)
    \/ \E s \in Slots : RemoveTask(s)
    \/ \E s \in Slots : LogDelete(s)
    \/ \E s \in Slots : UpdateManyTasks(s)
    \/ \E s \in Slots : LogBulk(s)

SpecRace == InitRace /\ [][NextRace]_vars

(***************************************************************************)
(* SpecAuth: the auth router.  Register requests run concurrently with     *)
(* each other and with logins, profile updates, password changes and role  *)
(* changes.                                                                *)
(***************************************************************************)
Secret == Repeat("s", 7)

AuthBodies ==
    [register |->
        {[email |-> "new@x.io", password |-> Secret, firstName |-> "Eve",
          lastName |-> "Roe"],
         [email |-> "NEW@x.io", password |-> Secret, firstName |-> "Eve",
          lastName |-> "Roe", role |-> ADMIN],
         [email |-> "Bob@X.io", password |-> Secret, firstName |-> "Bob",
          lastName |-> "Roe"],
         [email |-> "bob@x.io", password |-> Repeat("s", 3), firstName |-> "Bob",
          lastName |-> "Roe", role |-> MEMBER]},
     login |->
        {[email |-> "Bob@X.io", password |-> Secret],
         [email |-> "bob@x.io", password |-> Repeat("n", 8)]},
     profile |-> {[firstName |-> "Rob"], [lastName |-> "Doe", role |-> ADMIN]},
     password |->
        {[currentPassword |-> Secret, newPassword |-> Repeat("n", 8)],
         [currentPassword |-> Repeat("n", 8), newPassword |-> Secret],
         [currentPassword |-> Secret, newPassword |-> Repeat("n", 3)]},
     role |-> {[role |-> ADMIN]}]

InitAuth ==
    /\ users = [u \in {UA, UB} |->
                  [email |-> EmailOf(u), role |-> IF u = UA THEN ADMIN ELSE MEMBER,
                   firstName |-> IF u = UA THEN "Ann" ELSE "Bob",
                   lastName |-> "Roe", password |-> HashPassword(Secret)]]
    /\ tasks = InitTasks /\ log = InitLog
    /\ nextTask = 3
    /\ now = 1
    /\ resp = NoResponse
    /\ nreq = 0
    /\ inflight = [s \in Slots |-> Idle]

\* a request is accepted while fewer than MaxRaceReqs were received
Accepting ==
    nreq + Cardinality({r \in Slots : inflight[r] # Idle}) < MaxRaceReqs

NextAuth ==
    \/ \E s \in Slots, body \in AuthBodies.register :
          Receive(s, Request("POST /auth/register", NoToken, NoId, body, NoQuery))
    \/ \E s \in Slots : FindUserByEmail(s)
    \/ \E s \in Slots : CreateUser(s)
    \/ Accepting /\ \E body \in AuthBodies.login : PostLogin(body)
    \/ Accepting /\ \E tok \in {TokenOf(UA), TokenOf(UB)}, body \in AuthBodies.profile :
                      PatchProfile(tok, body)
    \/ Accepting /\ \E tok \in {TokenOf(UA), TokenOf(UB)}, body \in AuthBodies.password :
                      PostChangePassword(tok, body)
    \/ Accepting /\ \E tok \in {TokenOf(UA), TokenOf(UB)}, body \in AuthBodies.role :
                      PatchUserRole(tok, UB, body)

SpecAuth == InitAuth /\ [][NextAuth]_vars

(***************************************************************************)
(* Properties.                                                             *)
(***************************************************************************)
\* the user a request's token names
TokenUser(req) == ToObjectId(req.tok.userId)

\* this step answers a request to one of the endpoints eps
Answers(eps) == nreq' = nreq + 1 /\ resp'.req.ep \in eps

\* this step answers a request of a signed-in user whose stored role is role
AnswersRole(eps, role) ==
    /\ Answers(eps)
    /\ resp'.req.tok.kind = "valid"
    /\ TokenUser(resp'.req) \in DOMAIN users
    /\ users[TokenUser(resp'.req)].role = role

StoresUnchanged == users' = users /\ tasks' = tasks /\ log' = log

\* C1: every task GET /tasks returns to a member is assigned to that member,
\* whatever the query asks for; an admin gets tasks of the assignee the query
\* names only (all of them when that is the whole query), and the tasks of
\* every assignee when the query is empty.
C1_GetTasksVisibility ==
    (resp.req.ep = "GET /tasks" /\ resp.status = 200) =>
        LET caller == TokenUser(resp.req)
            query == resp.req.query
            returned == {resp.data.tasks[i] : i \in 1..Len(resp.data.tasks)}
            ids == {t._id : t \in returned}
        IN IF users[caller].role = MEMBER
           THEN \A t \in returned : t.assignee = caller
           ELSE /\ "assignee" \in DOMAIN query =>
                      \A t \in returned : t.assignee = ToObjectId(query.assignee)
                /\ DOMAIN query = {"assignee"} =>
                      ids = {t \in DOMAIN tasks :
                                tasks[t].assignee = ToObjectId(query.assignee)}
                /\ DOMAIN query = {} => ids = DOMAIN tasks

\* a member asked for another user's tasks and was given tasks, all their own
C1_MemberAsksForOthers ==
    /\ resp.req.ep = "GET /tasks" /\ resp.status = 200
    /\ resp.req.tok = TokenOf(UB)
    /\ "assignee" \in DOMAIN resp.req.query
    /\ ToObjectId(resp.req.query.assignee) = UC
    /\ Len(resp.data.tasks) >= 1

\* the request reaches updateTask or deleteTask: it is signed in and its route's
\* validation chain passes
ReachesTaskHandler(req) ==
    /\ req.tok.kind = "valid"
    /\ TokenUser(req) \in DOMAIN users
    /\ IF req.ep = "PATCH /tasks/:id"
       THEN UpdateTaskValidation(req.id, req.body)
       ELSE TaskIdValidation(req.id)

\* C2: updateTask or deleteTask called by a member on an existing task assigned
\* to someone else answers 403 and leaves the tasks and the activity log as
\* they were; called by an admin or by the assignee it is never answered 403,
\* a delete removes the task, and an update answered 200 stores the payload.
C2_TaskMutationOwnership ==
    [][(/\ Answers({"PATCH /tasks/:id", "DELETE /tasks/:id"})
        /\ ReachesTaskHandler(resp'.req)
        /\ ToObjectId(resp'.req.id) \in DOMAIN tasks)
       => LET caller == TokenUser(resp'.req)
              oid == ToObjectId(resp'.req.id)
              body == resp'.req.body
          IN IF users[caller].role = MEMBER /\ tasks[oid].assignee # caller
             THEN resp'.status = 403 /\ tasks' = tasks /\ log' = log
             ELSE /\ resp'.status # 403
                  /\ resp'.req.ep = "DELETE /tasks/:id" =>
                        resp'.status = 200 /\ oid \notin DOMAIN tasks'
                  /\ (resp'.req.ep = "PATCH /tasks/:id" /\ resp'.status = 200) =>
                        /\ oid \in DOMAIN tasks'
                        /\ \A f \in DOMAIN body \cap
                                   {"title", "description", "status", "priority", "tags"} :
                               tasks'[oid][f] = body[f]
                        /\ "assignee" \in DOMAIN body =>
                               tasks'[oid].assignee = ToObjectId(body.assignee)
    ]_vars

\* member UC was refused an update of T1, which is assigned to UB
C2_MemberRefused ==
    /\ resp.req.ep = "PATCH /tasks/:id" /\ resp.status = 403
    /\ resp.req.tok = TokenOf(UC) /\ resp.req.id = T1
    /\ T1 \in DOMAIN tasks /\ tasks[T1].assignee = UB

\* the endpoints the interface lists with Auth token or token+admin
TokenInterface ==
    {"POST /auth/logout", "GET /auth/verify", "GET /tasks", "POST /tasks",
     "PATCH /tasks/:id", "DELETE /tasks/:id", "PATCH /tasks/bulk",
     "GET /tasks/overdue", "GET /users", "PATCH /users/:id/role",
     "DELETE /users/:id", "GET /stats/overview", "GET /stats/analytics",
     "GET /stats/team", "GET /stats/system"}

\* the request carries no token, a forged one, an expired one, or one of a
\* user that no longer exists
BadToken(req) ==
    \/ req.tok.kind # "valid"
    \/ TokenUser(req) \notin DOMAIN users

\* C3: a request to a token-protected endpoint of the interface (POST
\* /auth/logout among them) with no token, an invalid or expired token, or
\* the token of a deleted user is answered 401, carries no record in its
\* response and changes no user, task or log entry.
C3_BadTokenIs401 ==
    [][(Answers(TokenInterface) /\ BadToken(resp'.req))
       => resp'.status = 401 /\ resp'.data = <<>> /\ StoresUnchanged
    ]_vars

\* the endpoints the interface lists as admin-only
AdminInterface ==
    {"PATCH /tasks/bulk", "GET /users", "PATCH /users/:id/role",
     "DELETE /users/:id", "PATCH /users/bulk", "GET /stats/team",
     "GET /stats/system"}

\* C4: a request of a signed-in member to an admin-only endpoint is answered
\* 403 and changes no user, task or log entry.
C4_MemberAtAdminEndpoint ==
    [][AnswersRole(AdminInterface, MEMBER)
       => resp'.status = 403 /\ StoresUnchanged
    ]_vars

\* member UC was refused a bulk role update
C4_MemberRefusedBulkUsers ==
    /\ resp.req.ep = "PATCH /users/bulk" /\ resp.status = 403
    /\ resp.req.tok = TokenOf(UC)
    /\ users[UC].role = MEMBER

\* C5: a request to an admin-only endpoint is authorized by the role the
\* store holds for the token's user when the request is made: it is answered
\* 403 exactly when that role is member, whatever role the user had when the
\* token was issued.
C5_RoleReadPerRequest ==
    [][\A role \in UserRoles :
          AnswersRole(AdminInterface, role)
          => (resp'.status = 403 <=> role = MEMBER) /\ resp'.status # 401
    ]_vars

\* UB, an admin when the token was issued and a member since, was refused
C5_DemotedAdminRefused ==
    /\ resp.req.ep \in AdminInterface /\ resp.status = 403
    /\ resp.req.tok = TokenOf(UB)
    /\ users[UB].role = MEMBER

\* C6: no request of an admin changes that admin's own role; PATCH
\* /users/:id/role and PATCH /users/bulk with a role update are answered 400
\* and change no role when the id, or one of userIds, denotes the caller in
\* any spelling of 24 hex characters.
C6_NoSelfRoleChange ==
    [][AnswersRole(TokenInterface \cup AdminInterface, ADMIN)
       => LET caller == TokenUser(resp'.req)
              req == resp'.req
              aimsAtCaller ==
                 \/ /\ req.ep = "PATCH /users/:id/role"
                    /\ IsMongoId(req.id) /\ ToObjectId(req.id) = caller
                 \/ /\ req.ep = "PATCH /users/bulk"
                    /\ "role" \in DOMAIN req.body.updates
                    /\ \A i \in 1..Len(req.body.userIds) : IsMongoId(req.body.userIds[i])
                    /\ \E i \in 1..Len(req.body.userIds) :
                          ToObjectId(req.body.userIds[i]) = caller
          IN /\ caller \in DOMAIN users' => users'[caller].role = users[caller].role
             /\ aimsAtCaller =>
                   /\ resp'.status = 400
                   /\ \A u \in DOMAIN users :
                         u \in DOMAIN users' /\ users'[u].role = users[u].role
    ]_vars

\* C7: DELETE /users/:id by an admin on another, existing user is answered
\* 400 and keeps the user while some task is assigned to that user, and is
\* answered 200 and removes the user when none is.
C7_DeleteUserBlockedByTasks ==
    [][(/\ AnswersRole({"DELETE /users/:id"}, ADMIN)
        /\ IsMongoId(resp'.req.id)
        /\ ToObjectId(resp'.req.id) \in DOMAIN users
        /\ ToObjectId(resp'.req.id) # TokenUser(resp'.req))
       => LET target == ToObjectId(resp'.req.id) IN
          IF \E t \in DOMAIN tasks : tasks[t].assignee = target
          THEN resp'.status = 400 /\ users' = users
          ELSE resp'.status = 200 /\ target \notin DOMAIN users'
               /\ \A u \in DOMAIN users \ {target} :
                     u \in DOMAIN users' /\ users'[u] = users[u]
    ]_vars

\* UC, the assignee of T2 at the start, was deleted once T2 was no longer theirs
C7_DeletedAfterReassign ==
    /\ resp.req.ep = "DELETE /users/:id" /\ resp.status = 200
    /\ ToObjectId(resp.req.id) = UC
    /\ UC \notin DOMAIN users
    /\ InitTasks[T2].assignee = UC
    /\ T2 \in DOMAIN tasks => tasks[T2].assignee # UC

\* C8: in every reachable state, the states that interleavings of deleteUser
\* with createTask, updateTask and bulkUpdateTasks reach among them, the
\* assignee and the createdBy of every stored task are stored users.
C8_TaskReferencesExist ==
    \A t \in DOMAIN tasks :
        /\ tasks[t].assignee \in DOMAIN users
        /\ tasks[t].createdBy \in DOMAIN users

\* the value of a schema path that a payload value denotes
Denotes(f, v) == CastPath(f, v)

\* C9: PATCH /tasks/:id by an authorized caller whose payload gives, for
\* every field it names, the value the task stores leaves the activity log
\* as it was.
C9_IdenticalPayloadNoLog ==
    [][(/\ Answers({"PATCH /tasks/:id"})
        /\ resp'.req.tok.kind = "valid"
        /\ TokenUser(resp'.req) \in DOMAIN users
        /\ ToObjectId(resp'.req.id) \in DOMAIN tasks
        /\ \/ users[TokenUser(resp'.req)].role = ADMIN
           \/ tasks[ToObjectId(resp'.req.id)].assignee = TokenUser(resp'.req)
        /\ DOMAIN resp'.req.body \subseteq AuditedFields \cup {"assignee"}
        /\ \A f \in DOMAIN resp'.req.body :
              Denotes(f, resp'.req.body[f]) = tasks[ToObjectId(resp'.req.id)][f])
       => log' = log
    ]_vars

\* C10: PATCH /tasks/:id by an authorized caller that changes the stored
\* value of exactly one audited field f, and nothing else, appends exactly
\* one log entry: action update, the task, the caller, and changes with the
\* single key f, from the old stored value to the new one.
C10_OneChangeOneEntry ==
    [][(/\ Answers({"PATCH /tasks/:id"})
        /\ resp'.status = 200
        /\ ToObjectId(resp'.req.id) \in DOMAIN tasks)
       => LET oid == ToObjectId(resp'.req.id)
              changed == {f \in SchemaPaths : tasks'[oid][f] # tasks[oid][f]}
              entry == log'[Len(log')]
          IN (Cardinality(changed) = 1 /\ changed \subseteq AuditedFields) =>
                /\ Len(log') = Len(log) + 1
                /\ SubSeq(log', 1, Len(log)) = log
                /\ entry.action = UPDATE
                /\ entry.taskId = oid
                /\ entry.userId = TokenUser(resp'.req)
                /\ DOMAIN entry.changes = changed
                /\ \A f \in changed :
                      /\ entry.changes[f].from = tasks[oid][f]
                      /\ Denotes(f, entry.changes[f].to) = tasks'[oid][f]
    ]_vars

\* the entries this step appended to the activity log
Appended == SubSeq(log', Len(log) + 1, Len(log'))

\* this step left every earlier entry of the activity log in place
LogGrows == Len(log') >= Len(log) /\ SubSeq(log', 1, Len(log)) = log

\* C11: a createTask answered 201 appends exactly one entry to the activity
\* log: action create, the caller, the new task, changes {title, assignee};
\* a deleteTask answered 200 appends exactly one entry: action delete, the
\* caller, the deleted task, changes {title}; a createTask or deleteTask
\* answered with an error leaves the log and the tasks as they were.
C11_CreateDeleteLogged ==
    [][Answers({"POST /tasks", "DELETE /tasks/:id"}) =>
          /\ LogGrows
          /\ IF resp'.status \in {200, 201}
             THEN /\ Len(Appended) = 1
                  /\ Appended[1].userId = TokenUser(resp'.req)
                  /\ IF resp'.req.ep = "POST /tasks"
                     THEN /\ Appended[1].action = CREATE
                          /\ DOMAIN tasks' \ DOMAIN tasks = {Appended[1].taskId}
                          /\ DOMAIN Appended[1].changes = {"title", "assignee"}
                          /\ Appended[1].changes.title =
                                 tasks'[Appended[1].taskId].title
                          /\ Appended[1].changes.assignee =
                                 users[tasks'[Appended[1].taskId].assignee].email
                     ELSE /\ Appended[1].action = DELETE
                          /\ Appended[1].taskId = ToObjectId(resp'.req.id)
                          /\ DOMAIN tasks \ DOMAIN tasks' = {Appended[1].taskId}
                          /\ Appended[1].changes =
                                 [title |-> tasks[Appended[1].taskId].title]
             ELSE log' = log /\ tasks' = tasks
    ]_vars

\* member UB deleted their own task T1 and the log's last entry records it
C11_DeleteRecorded ==
    /\ resp.req.ep = "DELETE /tasks/:id" /\ resp.status = 200
    /\ resp.req.tok = TokenOf(UB) /\ T1 \notin DOMAIN tasks
    /\ log[Len(log)].action = DELETE /\ log[Len(log)].taskId = T1
    /\ log[Len(log)].userId = UB

\* C12: a PATCH /tasks/bulk answered 200 appends exactly one entry per stored
\* task that its id list matches: the taskIds of the appended entries are
\* the matched tasks, none for an id that matches no stored task and one
\* only for an id listed twice; each entry has action update and changes
\* {bulk: true, updates}.
C12_BulkLogsMatchedTasks ==
    [][(Answers({"PATCH /tasks/bulk"}) /\ resp'.status = 200) =>
          LET ids == resp'.req.body.taskIds
              matched == {x \in DOMAIN tasks :
                             \E i \in 1..Len(ids) : ToObjectId(ids[i]) = x}
          IN /\ LogGrows
             /\ Len(Appended) = Cardinality(matched)
             /\ {Appended[i].taskId : i \in 1..Len(Appended)} = matched
             /\ \A i \in 1..Len(Appended) :
                   /\ Appended[i].action = UPDATE
                   /\ Appended[i].changes =
                         [bulk |-> TRUE, updates |-> resp'.req.body.updates]
    ]_vars

\* C13: a PATCH /tasks/bulk whose id list holds an id that is not 24 hex
\* characters, at any position and next to valid ids, is answered with an
\* error (400 to an admin) and changes no task and no log entry.
C13_MalformedIdFailsWhole ==
    [][(/\ Answers({"PATCH /tasks/bulk"})
        /\ \E i \in 1..Len(resp'.req.body.taskIds) :
              ~IsMongoId(resp'.req.body.taskIds[i])
        /\ \E i \in 1..Len(resp'.req.body.taskIds) :
              IsMongoId(resp'.req.body.taskIds[i]))
       => /\ resp'.status \in {400, 401, 403}
          /\ users[TokenUser(resp'.req)].role = ADMIN => resp'.status = 400
          /\ tasks' = tasks
          /\ log' = log
    ]_vars

\* the admin's bulk update listing T1 and then a 12-character id was
\* answered 400, and T1 is as it was
C13_MalformedLastRefused ==
    /\ resp.req.ep = "PATCH /tasks/bulk" /\ resp.status = 400
    /\ resp.req.tok = TokenOf(UA)
    /\ resp.req.body.taskIds = <<T1, Repeat("a", 12)>>
    /\ nreq = 1 /\ tasks[T1].status = TODO /\ Len(log) = Len(InitLog)

\* C14: a PATCH /tasks/bulk whose updates name an assignee that is no stored
\* user is answered with an error, 404 when an admin sends it with a body
\* that passes validation, and changes no task and no log entry.
C14_BulkUnknownAssignee ==
    [][(/\ Answers({"PATCH /tasks/bulk"})
        /\ "assignee" \in DOMAIN resp'.req.body.updates
        /\ ToObjectId(resp'.req.body.updates.assignee) \notin DOMAIN users)
       => /\ resp'.status \in {400, 401, 403, 404}
          /\ (/\ users[TokenUser(resp'.req)].role = ADMIN
              /\ BulkUpdateValidation(resp'.req.body)) => resp'.status = 404
          /\ tasks' = tasks
          /\ log' = log
    ]_vars

\* the admin's bulk reassignment of T1 and T2 to the deleted user UD was
\* answered 404, and both tasks keep their assignees
C14_BulkToDeletedUserRefused ==
    /\ resp.req.ep = "PATCH /tasks/bulk" /\ resp.status = 404
    /\ resp.req.tok = TokenOf(UA)
    /\ resp.req.body.updates = [assignee |-> UD]
    /\ nreq = 1 /\ tasks[T1].assignee = UB /\ tasks[T2].assignee = UC
    /\ Len(log) = Len(InitLog)

C16_CreateDueDate ==
    [][Answers({"POST /tasks"}) =>
          LET req == resp'.req IN
          /\ ("dueDate" \in DOMAIN req.body /\ req.body.dueDate.t <= now) =>
                /\ resp'.status = 400
                /\ tasks' = tasks
                /\ log' = log
          /\ (/\ "dueDate" \notin DOMAIN req.body
              /\ CreateTaskValidation(SanitizedBody(req))
              /\ ToObjectId(req.body.assignee) \in DOMAIN users) =>
                /\ resp'.status = 201
                /\ \E id \in DOMAIN tasks' \ DOMAIN tasks :
                      tasks'[id].dueDate = NoDate
    ]_vars

\* a POST /tasks whose dueDate is the very time of the request was answered
\* 400, and no task was stored
C16_DueNowRefused ==
    /\ resp.req.ep = "POST /tasks" /\ resp.status = 400
    /\ "dueDate" \in DOMAIN resp.req.body
    /\ resp.req.body.dueDate.t = now
    /\ ToObjectId(resp.req.body.assignee) \in DOMAIN users
    /\ DOMAIN tasks = {T1, T2}

\* toLowerCase() of a tag, without trim()
LowerTag(tag) == CASE tag = "X" -> "x" [] tag = "Y" -> "y" [] OTHER -> tag

\* Reading the task back after a POST /tasks answered 201: what getTaskById
\* answers the creating caller in the state the step leaves.  An admin or the
\* assignee gets the task, any other member a 403.  The task's fields are
\* those of the request body: title and description (trimmed when trimmed is
\* TRUE, as given otherwise), the instant dueDate denotes, the user assignee
\* names, status and priority or their defaults todo and medium, the tags
\* lower-cased (and trimmed when trimmed is TRUE) without duplicates, and
\* createdBy the caller.
ReadBackAfterCreate(trimmed) ==
    (Answers({"POST /tasks"}) /\ resp'.status = 201) =>
        LET body == resp'.req.body
            caller == [_id |-> TokenUser(resp'.req),
                       role |-> users[TokenUser(resp'.req)].role]
            given == IF "tags" \in DOMAIN body THEN body.tags ELSE <<>>
            wanted == {IF trimmed THEN NormalizeTag(given[i]) ELSE LowerTag(given[i]) :
                          i \in 1..Len(given)} \ {""}
        IN \A u \in [_id : UserOids, role : UserRoles],
              id \in {TaskIdSeq[k] : k \in 1..Len(TaskIdSeq)} :
           (u = caller /\ id \in DOMAIN tasks' \ DOMAIN tasks) =>
           LET read == GetTaskById(u, id)' IN
           IF caller.role = MEMBER /\ ToObjectId(body.assignee) # caller._id
           THEN read.status = 403
           ELSE /\ read.status = 200
                /\ read.data.task._id = id
                /\ read.data.task.title =
                      (IF trimmed THEN Trim(body.title) ELSE body.title)
                /\ read.data.task.description =
                      (IF "description" \notin DOMAIN body THEN Undefined
                       ELSE IF trimmed THEN Trim(body.description)
                       ELSE body.description)
                /\ read.data.task.status =
                      (IF "status" \in DOMAIN body THEN body.status ELSE TODO)
                /\ read.data.task.priority =
                      (IF "priority" \in DOMAIN body THEN body.priority ELSE MEDIUM)
                /\ read.data.task.dueDate =
                      (IF "dueDate" \in DOMAIN body THEN DateAt(body.dueDate.t)
                       ELSE NoDate)
                /\ read.data.task.assignee = ToObjectId(body.assignee)
                /\ read.data.task.createdBy = caller._id
                /\ {read.data.task.tags[i] : i \in 1..Len(read.data.task.tags)} = wanted
                /\ Len(read.data.task.tags) = Cardinality(wanted)

\* a GET /tasks/:id answered 200 returns the stored fields of the task and
\* changes nothing
ReadsStoredTask ==
    (Answers({"GET /tasks/:id"}) /\ resp'.status = 200) =>
        LET id == ToObjectId(resp'.req.id) IN
        /\ StoresUnchanged
        /\ id \in DOMAIN tasks
        /\ resp'.data.task._id = id
        /\ \A f \in SchemaPaths : resp'.data.task[f] = tasks[id][f]

\* C17: for every POST /tasks answered 201, a GET /tasks/:id of the created
\* task by the same caller, when entitled to view it, returns a task whose
\* title and description are the input's with surrounding whitespace
\* trimmed, whose dueDate, assignee, status and priority are the input's
\* (status todo and priority medium when omitted), whose tags are the
\* input's lower-cased, trimmed and de-duplicated, and whose createdBy is
\* the caller.
C17_CreateReadBackTrimmed ==
    [][ReadBackAfterCreate(TRUE) /\ ReadsStoredTask]_vars

\* C17 as stated: title and description equal the input as given, and the
\* tags are the input's lower-cased and de-duplicated.
C17_CreateReadBackAsGiven ==
    [][ReadBackAfterCreate(FALSE) /\ ReadsStoredTask]_vars

\* member UB created a task for themselves with title " Fix bug " and read it
\* back as T3 with title "Fix bug"
C17_CreatedThenRead ==
    /\ resp.req.ep = "GET /tasks/:id" /\ resp.status = 200
    /\ resp.req.tok = TokenOf(UB) /\ resp.req.id = T3
    /\ resp.data.task.title = "Fix bug"
    /\ resp.data.task.description = "the login form"
    /\ resp.data.task.createdBy = UB
    /\ resp.data.task.status = TODO

\* C18: in every reachable state the tags of every stored task are at most
\* 10, each lower-cased, trimmed and non-empty, and no tag occurs twice.
C18_StoredTagsNormalized ==
    \A id \in DOMAIN tasks :
        LET tags == tasks[id].tags IN
        /\ Len(tags) <= MaxTags
        /\ \A i \in 1..Len(tags) : tags[i] # "" /\ NormalizeTag(tags[i]) = tags[i]
        /\ \A i, j \in 1..Len(tags) : i # j => tags[i] # tags[j]

\* C19: no step changes the createdBy of a stored task, and a task that a
\* step stores anew has the caller of that request as createdBy.
C19_CreatedByImmutable ==
    [][/\ \A id \in DOMAIN tasks \cap DOMAIN tasks' :
             tasks'[id].createdBy = tasks[id].createdBy
       /\ \A id \in DOMAIN tasks' \ DOMAIN tasks :
             tasks'[id].createdBy = TokenUser(resp'.req)
    ]_vars

\* C20: a GET /tasks/overdue answered 200 returns exactly the stored tasks
\* that the caller may see (all for an admin, those assigned to the caller
\* for a member) and for which the virtual isOverdue holds: the task has a
\* dueDate, it is earlier than now, and its status is not done.  No returned
\* task lacks a dueDate or is done.
C20_OverdueListed ==
    [][Answers({"GET /tasks/overdue"}) =>
          LET caller == TokenUser(resp'.req)
              visible == {id \in DOMAIN tasks :
                             users[caller].role = ADMIN \/ tasks[id].assignee = caller}
              returned == {t._id : t \in resp'.data.tasks}
          IN /\ resp'.status = 200
             /\ returned = {id \in visible : IsOverdue(tasks[id])}
             /\ resp'.data.count = Cardinality(returned)
             /\ \A id \in returned :
                   /\ tasks[id].dueDate.k = "date"
                   /\ tasks[id].dueDate.t < now
                   /\ tasks[id].status # DONE
             /\ \A id \in visible \ returned :
                   \/ tasks[id].dueDate.k # "date"
                   \/ tasks[id].dueDate.t >= now
                   \/ tasks[id].status = DONE
    ]_vars

\* at time 2 the admin was given T1, due at time 1, as the only overdue task,
\* while T2, also due at time 1, is done
C20_AdminSeesOverdueT1 ==
    /\ resp.req.ep = "GET /tasks/overdue" /\ resp.status = 200
    /\ resp.req.tok = TokenOf(UA)
    /\ {t._id : t \in resp.data.tasks} = {T1}
    /\ now = 2 /\ tasks[T1].dueDate = DateAt(1)
    /\ tasks[T2].dueDate = DateAt(1) /\ tasks[T2].status = DONE

\* the tasks the caller of the request may see: all for an admin, those
\* assigned to the caller for a member
VisibleTo(req) ==
    {id \in DOMAIN tasks :
        users[TokenUser(req)].role = ADMIN \/ tasks[id].assignee = TokenUser(req)}

\* C21: the overdue count GET /stats/overview returns is the number of tasks
\* visible to the caller that have a dueDate, earlier than now, and a status
\* other than done; it equals the number of tasks GET /tasks/overdue returns
\* to the same caller in the same state.
C21_OverviewOverdueCount ==
    [][(Answers({"GET /stats/overview"}) /\ resp'.status = 200) =>
          /\ resp'.data.overdue =
                Cardinality({id \in VisibleTo(resp'.req) : IsOverdue(tasks[id])})
          /\ resp'.data.overdue =
                GetOverdueTasks([_id |-> TokenUser(resp'.req),
                                 role |-> users[TokenUser(resp'.req)].role]).data.count
    ]_vars

C23_Pagination ==
    [][(Answers({"GET /tasks", "GET /users"}) /\ resp'.status = 200) =>
          LET query == resp'.req.query
              pg == resp'.data.pagination
              p == IF "page" \in DOMAIN query THEN query.page ELSE 1
              l == IF "limit" \in DOMAIN query THEN query.limit ELSE 10
              items == IF resp'.req.ep = "GET /tasks" THEN resp'.data.tasks
                       ELSE resp'.data.users
              rest == IF pg.totalItems - (p - 1) * l > 0
                      THEN pg.totalItems - (p - 1) * l ELSE 0
          IN /\ pg.currentPage = p /\ p >= 1
             /\ pg.itemsPerPage = l /\ l >= 1 /\ l <= 100
             /\ pg.totalPages * l >= pg.totalItems
             /\ (pg.totalPages - 1) * l < pg.totalItems \/ pg.totalPages = 0
             /\ pg.hasNextPage = (p < pg.totalPages)
             /\ pg.hasPrevPage = (p > 1)
             /\ Len(items) = (IF l < rest THEN l ELSE rest)
    ]_vars

\* an admin asked for page 2 of the three users, one per page, and was given
\* one user, three pages, a next page and a previous page
C23_SecondOfThreePages ==
    /\ resp.req.ep = "GET /users" /\ resp.status = 200
    /\ resp.req.query = [page |-> 2, limit |-> 1]
    /\ Len(resp.data.users) = 1
    /\ resp.data.pagination.totalItems = 3
    /\ resp.data.pagination.totalPages = 3
    /\ resp.data.pagination.hasNextPage /\ resp.data.pagination.hasPrevPage

\* C24: no step of any endpoint removes or changes an entry of the activity
\* log: the log after the step begins with the log before it.
C24_LogAppendOnly ==
    [][LogGrows]_vars

\* task T1 has been deleted, and the log still holds the entry of its
\* creation, followed by the entry of its deletion
C24_DeletedTaskKeepsEntries ==
    /\ T1 \notin DOMAIN tasks
    /\ \E i, j \in 1..Len(log) :
          /\ i < j
          /\ log[i].taskId = T1 /\ log[i].action = CREATE
          /\ log[j].taskId = T1 /\ log[j].action = DELETE

\* C30: a GET /tasks/:id by a member for a stored task assigned to another
\* user is answered 403 with no data and changes nothing; for an admin or
\* the assignee it is answered 200 with the task and the entries of that
\* task in the activity log, newest first, the 20 most recent when there are
\* more.
C30_GetTaskById ==
    [][(/\ Answers({"GET /tasks/:id"})
        /\ IsMongoId(resp'.req.id)
        /\ ToObjectId(resp'.req.id) \in DOMAIN tasks)
       => LET caller == TokenUser(resp'.req)
              oid == ToObjectId(resp'.req.id)
              all == SelectSeq(log, LAMBDA e : e.taskId = oid)
              h == resp'.data.activityHistory
          IN /\ StoresUnchanged
             /\ IF users[caller].role = MEMBER /\ tasks[oid].assignee # caller
                THEN resp'.status = 403 /\ resp'.data = <<>>
                ELSE /\ resp'.status = 200
                     /\ resp'.data.task._id = oid
                     /\ Len(h) = (IF Len(all) > 20 THEN 20 ELSE Len(all))
                     /\ \A i \in 1..Len(h) : h[i] = all[Len(all) + 1 - i]
                     /\ \A i \in 1..(Len(h) - 1) : h[i].timestamp >= h[i + 1].timestamp
    ]_vars

\* member UB read T1, whose history has 21 entries, and was given 20
C30_TwentyOfTwentyOne ==
    /\ resp.req.ep = "GET /tasks/:id" /\ resp.status = 200
    /\ resp.req.tok = TokenOf(UB) /\ resp.req.id = T1
    /\ Len(SelectSeq(log, LAMBDA e : e.taskId = T1)) = 21
    /\ Len(resp.data.activityHistory) = 20
    /\ resp.data.activityHistory[20].action = UPDATE

\* the task a request in flight names
CallTask(s) == ToObjectId(inflight[s].req.id)

\* this step is the store write of the updateTask or deleteTask request in
\* slot s (Task.findByIdAndUpdate, Task.findByIdAndDelete)
StoreWrite(s) ==
    /\ inflight[s].pc \in {"update", "remove"}
    /\ inflight'[s] # inflight[s]

\* C26: when the store write of an updateTask or deleteTask request of a
\* member takes effect on a stored task, that task's assignee is the member.
C26_MemberWritesOwnTask ==
    [][\A s \in Slots :
          (/\ StoreWrite(s)
           /\ inflight[s].user.role = MEMBER
           /\ CallTask(s) \in DOMAIN tasks
           /\ tasks' # tasks)
          => tasks[CallTask(s)].assignee = inflight[s].user._id]_vars

\* C27: when the store write of an updateTask request changes a stored task
\* and the request goes on to write its update entry, every field of the
\* entry's changes has as `from` the value stored before the write and as
\* `to` the value stored after it.
C27_UpdateEntryAccurate ==
    [][\A s \in Slots :
          (/\ inflight[s].pc = "update"
           /\ inflight'[s].pc = "logUpdate"
           /\ CallTask(s) \in DOMAIN tasks)
          => LET changes == UpdateChanges(inflight[s].doc, inflight[s].req.body)
             IN \A f \in DOMAIN changes :
                   /\ changes[f].from = tasks[CallTask(s)][f]
                   /\ changes[f].to = tasks'[CallTask(s)][f]]_vars

\* C28: an updateTask or deleteTask request goes on to write its entry only
\* when its store write changed or removed a stored task, and no task has
\* two delete entries.
C28_EntryOnlyForAppliedWrite ==
    [][/\ \A s \in Slots :
             (/\ StoreWrite(s)
              /\ inflight'[s].pc \in {"logUpdate", "logDelete"})
             => CallTask(s) \in DOMAIN tasks
       /\ \A i, j \in 1..Len(log') :
             (/\ log'[i].action = DELETE /\ log'[j].action = DELETE
              /\ log'[i].taskId = log'[j].taskId)
             => i = j]_vars

\* letter case folded, on the emails of the model
FoldCase(email) ==
    CASE email = "Bob@X.io" -> "bob@x.io"
      [] email = "NEW@x.io" -> "new@x.io"
      [] OTHER -> email

\* this step answers a register request
AnswersRegister == nreq' = nreq + 1 /\ resp'.req.ep = "POST /auth/register"

\* C25: no two stored users have emails that are equal ignoring letter case,
\* also while register requests run concurrently; a register request answered
\* when a stored user has its email, ignoring case, is answered 400 and
\* stores no user.
C25_EmailsUniqueIgnoringCase ==
    [][/\ \A u, v \in DOMAIN users' :
             FoldCase(users'[u].email) = FoldCase(users'[v].email) => u = v
       /\ (/\ AnswersRegister
           /\ \E u \in DOMAIN users :
                 FoldCase(users[u].email) = FoldCase(resp'.req.body.email))
          => resp'.status = 400 /\ users' = users]_vars

\* two registers of new@x.io and NEW@x.io ran concurrently: one user has the
\* email and the request answered last was refused
C25_SecondConcurrentRegisterRefused ==
    /\ nreq = 2
    /\ resp.req.ep = "POST /auth/register" /\ resp.status = 400
    /\ resp.msg = "email already exists"
    /\ Cardinality({u \in DOMAIN users : users[u].email = "new@x.io"}) = 1

\* the caller of the request is an admin stored before the step
ByAdmin(req) ==
    /\ req.tok.kind = "valid"
    /\ TokenUser(req) \in DOMAIN users
    /\ users[TokenUser(req)].role = ADMIN

\* C29: a step that creates a user with role admin or raises a user's role
\* to admin answers a request of a caller who is an admin; a register request
\* that names no role stores role member.
C29_AdminOnlyByAdmin ==
    [][/\ \A u \in DOMAIN users' :
             (/\ users'[u].role = ADMIN
              /\ u \in DOMAIN users => users[u].role # ADMIN)
             => nreq' = nreq + 1 /\ ByAdmin(resp'.req)
       /\ (AnswersRegister /\ resp'.status = 201 /\ "role" \notin DOMAIN resp'.req.body)
          => \A u \in DOMAIN users' \ DOMAIN users : users'[u].role = MEMBER]_vars

=============================================================================
